---- MODULE Spec2Model ----
(***************************************************************************)
(* Model of the news content/engagement write paths:                       *)
(*   - PathGenerator (slugify / makeUnique / generatePath)                 *)
(*   - createNews / updateNews / deleteNews                                *)
(*   - addComment / deleteComment                                          *)
(*   - getNews / getNewsById / getNewsComments                             *)
(*   - handleError, and calculateTrend of the dashboard                    *)
(*   - updateSections, and the activity list of getDashboardData           *)
(*   - the article editor (section list, uploads, handleSubmit)            *)
(* Strings are sequences of one-character strings so that slugification,   *)
(* truncation and suffixing are computed character by character.           *)
(***************************************************************************)
EXTENDS Integers, Sequences, FiniteSets, TLC

VARIABLES
    \* ---- storage (rows of the relational store) ----
    news,              \* news id -> [title, path, userId, sections]
    sections,          \* news id -> the Section rows of that news, with their payload type
    newsInteractions,  \* news id -> popularityScore (one interaction row per news)
    userInteractions,  \* user id -> contributionScore (row exists iff in DOMAIN)
    comments,          \* comment id -> [newsInteractionId, userInteractionId]
    logs,              \* audit log, oldest first
    nextNewsId,        \* fresh id source for news rows
    nextCommentId,     \* fresh id source for comment rows
    \* ---- observation of the last request ----
    lastOp,            \* [op, result, ...] of the request that just finished
    \* ---- scores the run started from, and successful call counters ----
    basePopularity,    \* news id -> popularityScore before any request of the run
    baseContribution,  \* user id -> contributionScore before any request of the run
    nAdded,            \* successful addComment calls of the run
    nDeleted,          \* successful deleteComment calls of the run
    \* ---- in-flight deleteComment requests (lookup done, transaction pending) ----
    pending,           \* request slot -> the comment row read by findUnique
    \* ---- one PathGenerator instance ----
    existingPaths,     \* PathGenerator.existingPaths
    initialPaths,      \* the set the generator was constructed from
    returned,          \* slugs returned by generatePath so far, in call order
    lastCall           \* [title, before, result] of the last generatePath call

vars == <<news, sections, newsInteractions, userInteractions, comments, logs, nextNewsId,
          nextCommentId, lastOp, basePopularity, baseContribution, nAdded,
          nDeleted, pending, existingPaths, initialPaths, returned, lastCall>>

dbVars == <<news, sections, newsInteractions, userInteractions, comments, logs, nextNewsId,
            nextCommentId, lastOp, basePopularity, baseContribution, nAdded,
            nDeleted, pending>>

pathVars == <<existingPaths, initialPaths, returned, lastCall>>

-----------------------------------------------------------------------------
(* Characters and strings *)

Uppers == <<"A","B","C","D","E","F","G","H","I","J","K","L","M",
            "N","O","P","Q","R","S","T","U","V","W","X","Y","Z">>
Lowers == <<"a","b","c","d","e","f","g","h","i","j","k","l","m",
            "n","o","p","q","r","s","t","u","v","w","x","y","z">>
Digits == <<"0","1","2","3","4","5","6","7","8","9">>

Range(s) == {s[i] : i \in 1..Len(s)}

\* \w of the regular expressions: [A-Za-z0-9_]
WordChars == Range(Uppers) \cup Range(Lowers) \cup Range(Digits) \cup {"_"}
IsWord(c) == c \in WordChars
\* \s of the regular expressions and of trim()
SpaceChars == {" ", "\t", "\n"}
IsSpace(c) == c \in SpaceChars

Min(a, b) == IF a < b THEN a ELSE b
Max(a, b) == IF a > b THEN a ELSE b

\* String.prototype.substring(0, n)
Substring0(s, n) == SubSeq(s, 1, Min(Max(n, 0), Len(s)))

\* Number -> decimal string, as template-literal interpolation does
RECURSIVE NatToStr(_)
NatToStr(n) == IF n < 10 THEN <<Digits[n + 1]>>
               ELSE NatToStr(n \div 10) \o <<Digits[(n % 10) + 1]>>

\* a string of n copies of c
Rep(c, n) == [i \in 1..n |-> c]

-----------------------------------------------------------------------------
(* PathGenerator *)

maxLength == 100
separator == "-"

ToLowerChar(c) ==
    IF c \in Range(Uppers)
    THEN Lowers[CHOOSE i \in 1..Len(Uppers) : Uppers[i] = c]
    ELSE c

ToLowerCase(s) == [i \in 1..Len(s) |-> ToLowerChar(s[i])]

RECURSIVE TrimStart(_)
TrimStart(s) == IF s # <<>> /\ IsSpace(Head(s)) THEN TrimStart(Tail(s)) ELSE s

RECURSIVE TrimEnd(_)
TrimEnd(s) ==
    IF s # <<>> /\ IsSpace(s[Len(s)]) THEN TrimEnd(SubSeq(s, 1, Len(s) - 1)) ELSE s

\* String.prototype.trim()
Trim(s) == TrimEnd(TrimStart(s))

\* .replace(/[^\w\s-]/g, '')
StripNonWord(s) == SelectSeq(s, LAMBDA c : IsWord(c) \/ IsSpace(c) \/ c = "-")

\* replace every maximal run of characters of class Cls by one separator:
\* the first character of a run becomes the separator, the others are dropped
ReplaceRuns(s, Cls) ==
    LET marked == [i \in 1..Len(s) |->
                     IF s[i] \in Cls
                     THEN IF i > 1 /\ s[i - 1] \in Cls THEN "" ELSE separator
                     ELSE s[i]]
    IN  SelectSeq(marked, LAMBDA c : c # "")

\* .replace(/[\s_]+/g, '-')
SpacesToSeparator(s) == ReplaceRuns(s, SpaceChars \cup {"_"})
\* .replace(/-+/g, '-')
CollapseSeparators(s) == ReplaceRuns(s, {separator})

\* .replace(/^-|-$/g, '')
TrimSeparator(s) ==
    LET a == IF Len(s) > 0 /\ s[1] = separator THEN Tail(s) ELSE s
    IN  IF Len(a) > 0 /\ a[Len(a)] = separator THEN SubSeq(a, 1, Len(a) - 1) ELSE a

slugify(text) ==
    TrimSeparator(CollapseSeparators(SpacesToSeparator(
        StripNonWord(Trim(ToLowerCase(text))))))

\* the while loop of makeUnique; one unfolding per iteration
RECURSIVE makeUniqueLoop(_, _, _, _)
makeUniqueLoop(path, finalPath, counter, used) ==
    IF finalPath \notin used THEN finalPath
    ELSE LET fp1    == path \o <<separator>> \o NatToStr(counter)
             c1     == counter + 1
             suffix == <<separator>> \o NatToStr(c1)
             path2  == Substring0(path, maxLength - Len(suffix))
         IN  IF Len(fp1) > maxLength
             THEN makeUniqueLoop(path2, path2 \o suffix, c1, used)
             ELSE makeUniqueLoop(path, fp1, c1, used)

\* makeUnique without the initial truncation of an over-long base
makeUnique_NoTruncate(basePath, used) == makeUniqueLoop(basePath, basePath, 1, used)

makeUnique(basePath, used) ==
    LET path == IF Len(basePath) > maxLength
                THEN Substring0(basePath, maxLength - 3)
                ELSE basePath
    IN  makeUniqueLoop(path, path, 1, used)

\* the slug generatePath returns when existingPaths = used
generatePath(title, used) == makeUnique(slugify(title), used)

\* generatePath without this.existingPaths.add(uniquePath)
generatePathAdd_Forgets(title, used) == used

\* existingPaths after the call
generatePathAdd(title, used) == used \cup {generatePath(title, used)}

-----------------------------------------------------------------------------
(* Inputs of the PathGenerator specification *)

MaxTitleLen == 2      \* length of the exhaustively enumerated short titles
MaxCalls    == 2      \* generatePath calls on one generator
MaxSeed     == 11     \* earlier allocations of one title behind an initial used set

TitleChars == {"A", " ", "!"}

RECURSIVE SeqsUpTo(_, _)
SeqsUpTo(S, n) ==
    IF n = 0 THEN {<<>>}
    ELSE LET shorter == SeqsUpTo(S, n - 1)
         IN  shorter \cup {Append(s, c) : s \in {t \in shorter : Len(t) = n - 1}, c \in S}

ShortTitles == SeqsUpTo(TitleChars, MaxTitleLen)

HelloWorld   == <<"H","e","l","l","o",","," ","W","o","r","l","d","!">>
BreakingNews == <<"B","r","e","a","k","i","n","g"," ","N","e","w","s">>

\* titles whose slug is two shorter than, one shorter than, equal to and longer
\* than maxLength, and titles with a separator where the truncations cut
LongTitles ==
    {Rep("a", n) : n \in (maxLength - 2)..(maxLength + 1)}
    \cup {Rep("a", maxLength - 4) \o <<" ">> \o Rep("b", 5),
          Rep("a", maxLength - 3) \o <<"_">> \o Rep("b", 2)}

Titles == ShortTitles \cup LongTitles \cup {HelloWorld, BreakingNews, <<"a","-","1">>, <<"a","_","b">>}

SeedTitles == {Rep("a", maxLength - 2)}

\* existingPaths of a generator after k calls with the same title
RECURSIVE AfterCalls(_, _)
AfterCalls(t, k) ==
    IF k = 0 THEN {} ELSE generatePathAdd(t, AfterCalls(t, k - 1))

InitialUsedSets == {AfterCalls(t, k) : t \in SeedTitles, k \in 0..MaxSeed}

NoCall == [title |-> <<>>, before |-> {}, result |-> <<>>, called |-> FALSE]

-----------------------------------------------------------------------------
(* Storage: initial values shared by the specifications *)

EmptyFn == [x \in {} |-> 0]
NoOp == [op |-> "none", result |-> "none", user |-> "none", target |-> 0]

DbIdle ==
    /\ news = EmptyFn
    /\ sections = EmptyFn
    /\ newsInteractions = EmptyFn
    /\ userInteractions = EmptyFn
    /\ comments = EmptyFn
    /\ logs = <<>>
    /\ nextNewsId = 1
    /\ nextCommentId = 1
    /\ lastOp = NoOp
    /\ basePopularity = EmptyFn
    /\ baseContribution = EmptyFn
    /\ nAdded = 0
    /\ nDeleted = 0
    /\ pending = EmptyFn

-----------------------------------------------------------------------------
(* Requests and their inputs *)

MaxNews     == 2      \* news rows ever created in one run
MaxComments == 2      \* comment rows ever created in one run
MaxLogs     == 2      \* updateNews stops being issued once the log is this long
MaxPending  == 2      \* deleteComment requests in flight at once
MaxBase     == 2      \* largest score a run starts from

MaxTitle      == 200  \* NewsSchema.title max
MaxCommentLen == 500  \* CommentSchema.text max

\* scores moved by each comment created or deleted
ContributionDecrement == 2
\* an increment that does not match the decrement
ContributionIncrement_Off == ContributionDecrement - 1
ContributionIncrement == 2
PopularityIncrement_Off == ContributionIncrement + 1
PopularityIncrement   == 2
PopularityDecrement_Off == PopularityIncrement - 1
PopularityDecrement   == 2

Users     == {"u1", "u2", "u3"}     \* user rows
NoSession == "none"                 \* getCurrentUserData() returned null
Sessions  == Users \cup {NoSession}
NewsIds    == 1..MaxNews
CommentIds == 1..MaxComments

\* lengths of the comment texts submitted
TextLens == {0, 1, MaxCommentLen, MaxCommentLen + 1}

TextSection(o)  == [order |-> o, isSeparator |-> FALSE, type |-> "text"]
ImageSection(o) == [order |-> o, isSeparator |-> FALSE, type |-> "image"]
SectionInputs == {<<ImageSection(0), TextSection(1)>>}

\* two titles with the same slug, and two titles the schema rejects
ValidTitles   == {<<"a">>, <<"A", "!">>}
InvalidTitles == {<<>>, Rep("a", MaxTitle + 1)}
NewsInputs ==
    [title : ValidTitles \cup InvalidTitles, userId : {"u1"}, sections : SectionInputs]

\* results reported to the caller
Success            == "success"
Unauthorized       == "Unauthorized"
CommentNotFound    == "Comment not found"
NewsInteractionNotFound == "News interaction not found"
UserInteractionNotFound == "User interaction not found"
RecordNotFound     == "Record to delete does not exist"
NewsNotFound       == "News not found"
ValidationFailed   == "Validation error"
DatabaseError      == "Database error"
CommentEmpty       == "Comment cannot be empty"
CommentTooLong     == "Comment is too long"

Op(op, result, user, target) ==
    [op |-> op, result |-> result, user |-> user, target |-> target]

\* f with key k removed
Without(f, k) == [x \in DOMAIN f \ {k} |-> f[x]]
\* f with key k set to v
With(f, k, v) == [x \in DOMAIN f \cup {k} |-> IF x = k THEN v ELSE f[x]]

-----------------------------------------------------------------------------
(* Comments *)

\* CommentSchema.safeParse: the first violated rule, or "ok"
CommentValidation(textLen) ==
    IF textLen < 1 THEN CommentEmpty
    ELSE IF textLen > MaxCommentLen THEN CommentTooLong
    ELSE "ok"

\* the transaction of addComment: the result, and the rows it commits
AddCommentTx(user, newsId) ==
    IF newsId \notin DOMAIN newsInteractions
    THEN [result |-> NewsInteractionNotFound, comments |-> comments,
          newsInteractions |-> newsInteractions, userInteractions |-> userInteractions]
    ELSE IF user \notin DOMAIN userInteractions
    THEN [result |-> UserInteractionNotFound, comments |-> comments,
          newsInteractions |-> newsInteractions, userInteractions |-> userInteractions]
    ELSE [result |-> Success,
          comments |-> With(comments, nextCommentId,
                            [newsInteractionId |-> newsId, userInteractionId |-> user]),
          newsInteractions |->
              [newsInteractions EXCEPT ![newsId] = @ + PopularityIncrement],
          userInteractions |->
              [userInteractions EXCEPT ![user] = @ + ContributionIncrement]]

AddComment(session, newsId, textLen) ==
    /\ LET v == CommentValidation(textLen)
       IN  IF v # "ok"
           THEN /\ lastOp' = Op("addComment", v, session, newsId)
                /\ UNCHANGED <<comments, newsInteractions, userInteractions,
                               nextCommentId, nAdded>>
           ELSE IF session = NoSession
           THEN /\ lastOp' = Op("addComment", Unauthorized, session, newsId)
                /\ UNCHANGED <<comments, newsInteractions, userInteractions,
                               nextCommentId, nAdded>>
           ELSE LET tx == AddCommentTx(session, newsId)
                IN  /\ tx.result = Success => nextCommentId <= MaxComments
                    /\ lastOp' = Op("addComment", tx.result, session, newsId)
                    /\ comments' = tx.comments
                    /\ newsInteractions' = tx.newsInteractions
                    /\ userInteractions' = tx.userInteractions
                    /\ nextCommentId' =
                          IF tx.result = Success THEN nextCommentId + 1 ELSE nextCommentId
                    /\ nAdded' = IF tx.result = Success THEN nAdded + 1 ELSE nAdded
    /\ UNCHANGED <<news, sections, logs, nextNewsId, basePopularity, baseContribution,
                   nDeleted, pending, pathVars>>

\* deleteComment without the ownership check
IsAuthor_Anyone(comment, user) == TRUE

\* the ownership check: comment.userInteraction.user.id !== user.id
IsAuthor(comment, user) == comment.userInteractionId = user

\* tx.comment.delete on a missing row behaving like deleteMany
DeleteThrows_Never(commentId) == FALSE

\* tx.comment.delete throws when the row does not exist
DeleteThrows(commentId) == commentId \notin DOMAIN comments

\* the transaction of deleteComment, for the comment row read before it
DeleteCommentTx(commentId, comment) ==
    IF \/ DeleteThrows(commentId)
       \/ comment.newsInteractionId \notin DOMAIN newsInteractions
       \/ comment.userInteractionId \notin DOMAIN userInteractions
    THEN [result |-> RecordNotFound, comments |-> comments,
          newsInteractions |-> newsInteractions, userInteractions |-> userInteractions]
    ELSE [result |-> Success,
          comments |-> Without(comments, commentId),
          newsInteractions |->
              [newsInteractions EXCEPT ![comment.newsInteractionId] = @ - PopularityDecrement],
          userInteractions |->
              [userInteractions EXCEPT ![comment.userInteractionId] = @ - ContributionDecrement]]

\* the part of deleteComment before the transaction: "ok" or the error thrown
DeleteCommentLookup(session, commentId) ==
    IF session = NoSession THEN Unauthorized
    ELSE IF commentId \notin DOMAIN comments THEN CommentNotFound
    ELSE IF ~IsAuthor(comments[commentId], session) THEN Unauthorized
    ELSE "ok"

\* deleteComment running alone, from its first line to its last
DeleteComment(session, commentId) ==
    /\ LET found == DeleteCommentLookup(session, commentId)
       IN  IF found # "ok"
           THEN /\ lastOp' = Op("deleteComment", found, session, commentId)
                /\ UNCHANGED <<comments, newsInteractions, userInteractions, nDeleted>>
           ELSE LET tx == DeleteCommentTx(commentId, comments[commentId])
                IN  /\ lastOp' = Op("deleteComment", tx.result, session, commentId)
                    /\ comments' = tx.comments
                    /\ newsInteractions' = tx.newsInteractions
                    /\ userInteractions' = tx.userInteractions
                    /\ nDeleted' = IF tx.result = Success THEN nDeleted + 1 ELSE nDeleted
    /\ UNCHANGED <<news, sections, logs, nextNewsId, nextCommentId, basePopularity,
                   baseContribution, nAdded, pending, pathVars>>

-----------------------------------------------------------------------------
(* handleError *)

PathExists         == "A news with this path already exists"
ReferencedNotFound == "Referenced record not found"
UnexpectedError    == "An unexpected error occurred"
FailedToCreate     == "Failed to create news"
FailedToUpdate     == "Failed to update news"

\* the values a catch block can receive
PrismaError(code)  == [kind |-> "prisma", code |-> code, messages |-> <<>>]
ZodError(messages) == [kind |-> "zod", code |-> "", messages |-> messages]
PlainError(message) == [kind |-> "error", code |-> "", messages |-> <<message>>]
NonError(value)    == [kind |-> "other", code |-> "", messages |-> <<value>>]

\* handleError with every failure reported as the generic one
handleError_Generic(error) == UnexpectedError

\* the message of the Error that handleError throws
handleError(error) ==
    IF error.kind = "prisma"
    THEN CASE error.code = "P2002" -> PathExists
           [] error.code = "P2025" -> NewsNotFound
           [] error.code = "P2003" -> ReferencedNotFound
           [] OTHER -> "Database error: " \o error.code
    ELSE IF error.kind = "zod"
    THEN "Validation error: " \o error.messages[1]
    ELSE IF error.kind = "error"
    THEN error.messages[1]
    ELSE UnexpectedError

-----------------------------------------------------------------------------
(* News *)

\* NewsSchema.safeParse: the title rule, and the order rule of SectionSchema
NewsValidation(data) ==
    IF Len(data.title) < 1 \/ Len(data.title) > MaxTitle THEN ValidationFailed
    ELSE IF \E k \in 1..Len(data.sections) : data.sections[k].order < 0
    THEN ValidationFailed
    ELSE "ok"

\* getAllExistingPaths()
getAllExistingPaths == {news[i].path : i \in DOMAIN news}

LogEntry(userId, action, newsId, title, path, sectionsCount) ==
    [userId |-> userId, action |-> action, newsId |-> newsId, title |-> title,
     path |-> path, sectionsCount |-> sectionsCount]

\* the log entry of updateNews: old and new title and path
UpdateLogEntry(userId, newsId, oldTitle, newTitle, oldPath, newPath, sectionsCount) ==
    [userId |-> userId, action |-> "NEWS_UPDATED", newsId |-> newsId,
     oldTitle |-> oldTitle, newTitle |-> newTitle, oldPath |-> oldPath,
     newPath |-> newPath, sectionsCount |-> sectionsCount]

\* a Section row whose payload is a text whatever the declared type
SectionRow_TextOnly(section) ==
    [order |-> section.order, isSeparator |-> section.isSeparator,
     sectionTexts |-> 1, sectionImages |-> 0]

\* the Section row and the payload rows created for one input section
SectionRow(section) ==
    [order |-> section.order, isSeparator |-> section.isSeparator,
     sectionTexts  |-> IF section.type = "text" THEN 1 ELSE 0,
     sectionImages |-> IF section.type = "image" THEN 1 ELSE 0]

SectionRows(input) == [i \in 1..Len(input) |-> SectionRow(input[i])]

\* updateNews without tx.section.deleteMany
ReplaceSections_Keeps(old, input) == old \o SectionRows(input)

\* the sections of an item after deleteMany and the re-creation from the input
ReplaceSections(old, input) == SectionRows(input)

\* where a storage call of a request fails: nowhere, inside the transaction,
\* or in what runs after the transaction has committed
Faults == {"none", "tx", "after"}

NewsOp(op, result, target, fault) ==
    [op |-> op, result |-> result, user |-> NoSession, target |-> target,
     fault |-> fault]

CreateNews(data) ==
    /\ \E fault \in Faults :
          IF NewsValidation(data) # "ok"
          THEN /\ fault = "none"
               /\ lastOp' = NewsOp("createNews", NewsValidation(data), 0, fault)
               /\ UNCHANGED <<news, sections, newsInteractions, logs, nextNewsId,
                              basePopularity>>
          ELSE IF fault = "tx"
          THEN \* a statement of the transaction throws: everything is rolled back
               /\ lastOp' = NewsOp("createNews", DatabaseError, 0, fault)
               /\ UNCHANGED <<news, sections, newsInteractions, logs, nextNewsId,
                              basePopularity>>
          ELSE LET path == generatePath(data.title, getAllExistingPaths)
                   id   == nextNewsId
               IN  /\ nextNewsId <= MaxNews
                   /\ news' = With(news, id, [title |-> data.title, path |-> path,
                                              userId |-> data.userId])
                   /\ newsInteractions' = With(newsInteractions, id, 0)
                   /\ basePopularity' = With(basePopularity, id, 0)
                   /\ sections' = With(sections, id, SectionRows(data.sections))
                   /\ logs' = Append(logs, LogEntry(data.userId, "NEWS_CREATED", id,
                                                    data.title, path, Len(data.sections)))
                   /\ nextNewsId' = nextNewsId + 1
                   \* getNewsById and revalidatePath run after the commit
                   /\ lastOp' = NewsOp("createNews",
                                       IF fault = "none" THEN Success ELSE DatabaseError,
                                       id, fault)
    /\ UNCHANGED <<userInteractions, comments, nextCommentId, baseContribution,
                   nAdded, nDeleted, pending, pathVars>>

\* updateNews without taking the item's own path out of the existing paths
filteredPaths_KeepsOwn(id) == getAllExistingPaths

\* existingPaths.filter((p) => p !== currentNews?.path)
filteredPaths(id) ==
    IF id \in DOMAIN news THEN getAllExistingPaths \ {news[id].path}
    ELSE getAllExistingPaths

\* updateNews; cap bounds the length the log may have when an update commits
UpdateNewsWithin(cap, id, data) ==
    /\ \E fault \in Faults :
          IF NewsValidation(data) # "ok"
          THEN /\ fault = "none"
               /\ lastOp' = NewsOp("updateNews", NewsValidation(data), id, fault)
               /\ UNCHANGED <<news, sections, logs>>
          ELSE IF id \notin DOMAIN news
          THEN \* tx.news.update throws P2025
               /\ fault = "none"
               /\ lastOp' = NewsOp("updateNews", NewsNotFound, id, "tx")
               /\ UNCHANGED <<news, sections, logs>>
          ELSE IF fault = "tx"
          THEN /\ lastOp' = NewsOp("updateNews", DatabaseError, id, fault)
               /\ UNCHANGED <<news, sections, logs>>
          ELSE LET path == generatePath(data.title, filteredPaths(id))
               IN  /\ Len(logs) < cap
                   /\ news' = [news EXCEPT ![id] = [title |-> data.title, path |-> path,
                                                    userId |-> data.userId]]
                   /\ sections' = [sections EXCEPT ![id] = ReplaceSections(sections[id], data.sections)]
                   /\ logs' = Append(logs,
                                UpdateLogEntry(data.userId, id, news[id].title, data.title,
                                               news[id].path, path, Len(data.sections)))
                   /\ lastOp' = NewsOp("updateNews",
                                       IF fault = "none" THEN Success ELSE DatabaseError,
                                       id, fault)
    /\ UNCHANGED <<newsInteractions, userInteractions, comments, nextNewsId,
                   nextCommentId, basePopularity, baseContribution, nAdded, nDeleted,
                   pending, pathVars>>

UpdateNews(id, data) == UpdateNewsWithin(MaxLogs, id, data)

\* rows removed with a news row by the storage layer's cascade rules
SectionsAfterNewsDelete(id) == Without(sections, id)
InteractionsAfterNewsDelete(id) == Without(newsInteractions, id)
CommentsAfterNewsDelete(id) ==
    [c \in {x \in DOMAIN comments : comments[x].newsInteractionId # id} |-> comments[c]]

\* deleteNews without the check of the row it read
DeleteNewsMissing_Ignored(id) == FALSE

\* if (!newsToDelete) throw new Error('News not found')
DeleteNewsMissing(id) == id \notin DOMAIN news

\* the log entry of deleteNews, from the row read before the delete
DeleteLogEntry(id) ==
    IF id \in DOMAIN news
    THEN LogEntry(news[id].userId, "NEWS_DELETED", id, news[id].title, <<>>,
                  Len(sections[id]))
    ELSE LogEntry(NoSession, "NEWS_DELETED", id, <<>>, <<>>, 0)

DeleteNews(id) ==
    /\ \E fault \in {"none", "tx"} :
          IF DeleteNewsMissing(id)
          THEN /\ fault = "none"
               /\ lastOp' = NewsOp("deleteNews", NewsNotFound, id, "tx")
               /\ UNCHANGED <<news, sections, newsInteractions, comments, logs,
                              basePopularity>>
          ELSE IF fault = "tx"
          THEN /\ lastOp' = NewsOp("deleteNews", DatabaseError, id, fault)
               /\ UNCHANGED <<news, sections, newsInteractions, comments, logs,
                              basePopularity>>
          ELSE /\ news' = Without(news, id)
               /\ sections' = SectionsAfterNewsDelete(id)
               /\ newsInteractions' = InteractionsAfterNewsDelete(id)
               /\ comments' = CommentsAfterNewsDelete(id)
               /\ basePopularity' = Without(basePopularity, id)
               /\ logs' = Append(logs, DeleteLogEntry(id))
               /\ lastOp' = NewsOp("deleteNews", Success, id, fault)
    /\ UNCHANGED <<userInteractions, nextNewsId, nextCommentId, baseContribution,
                   nAdded, nDeleted, pending, pathVars>>

-----------------------------------------------------------------------------
(* Specification: requests served one at a time, from an empty store whose    *)
(* users u1 and u2 have their user-interaction row and u3 has none            *)

PathIdle ==
    /\ existingPaths = {}
    /\ initialPaths = {}
    /\ returned = <<>>
    /\ lastCall = NoCall

Init ==
    /\ news = EmptyFn
    /\ sections = EmptyFn
    /\ newsInteractions = EmptyFn
    /\ userInteractions = [u \in {"u1", "u2"} |-> 0]
    /\ comments = EmptyFn
    /\ logs = <<>>
    /\ nextNewsId = 1
    /\ nextCommentId = 1
    /\ lastOp = NoOp
    /\ basePopularity = EmptyFn
    /\ baseContribution = [u \in {"u1", "u2"} |-> 0]
    /\ nAdded = 0
    /\ nDeleted = 0
    /\ pending = EmptyFn
    /\ PathIdle

Next ==
    \/ \E data \in NewsInputs : CreateNews(data)
    \/ \E id \in NewsIds, data \in NewsInputs : UpdateNews(id, data)
    \/ \E id \in NewsIds : DeleteNews(id)
    \/ \E session \in Sessions, id \in NewsIds, textLen \in TextLens :
          AddComment(session, id, textLen)
    \/ \E session \in Sessions, c \in CommentIds : DeleteComment(session, c)

Spec == Init /\ [][Next]_vars

-----------------------------------------------------------------------------
(* Specification: one item and one user with scores that predate the run;    *)
(* only that user has a user-interaction row, so every successful call is    *)
(* on that pair and every other call fails                                   *)

BaseScores == (0 - 1)..MaxBase

ExistingNews == [title |-> <<"a">>, path |-> <<"a">>, userId |-> "u1"]

InitPre ==
    /\ news = [i \in {1} |-> ExistingNews]
    /\ sections = [i \in {1} |-> SectionRows(<<ImageSection(0), TextSection(1)>>)]
    /\ newsInteractions \in [{1} -> BaseScores]
    /\ userInteractions \in [{"u1"} -> BaseScores]
    /\ comments = EmptyFn
    /\ logs = <<LogEntry("u1", "NEWS_CREATED", 1, <<"a">>, <<"a">>, 2)>>
    /\ nextNewsId = 2
    /\ nextCommentId = 1
    /\ lastOp = NoOp
    /\ basePopularity = newsInteractions
    /\ baseContribution = userInteractions
    /\ nAdded = 0
    /\ nDeleted = 0
    /\ pending = EmptyFn
    /\ PathIdle

NextPre ==
    \/ \E session \in Sessions, id \in NewsIds, textLen \in TextLens :
          AddComment(session, id, textLen)
    \/ \E session \in Sessions, c \in CommentIds : DeleteComment(session, c)

SpecPre == InitPre /\ [][NextPre]_vars

-----------------------------------------------------------------------------
(* Specification: concurrent comment requests. The transactions are atomic;  *)
(* deleteComment reads the comment and checks ownership before its           *)
(* transaction starts, so other requests run between the two.                *)

Slots == 1..MaxPending
Idle  == [commentId |-> 0]

InitConc ==
    /\ news = [i \in {1} |-> ExistingNews]
    /\ sections = [i \in {1} |-> SectionRows(<<ImageSection(0), TextSection(1)>>)]
    /\ newsInteractions = [i \in {1} |-> 0]
    /\ userInteractions = [u \in {"u1", "u2"} |-> 0]
    /\ comments = EmptyFn
    /\ logs = <<LogEntry("u1", "NEWS_CREATED", 1, <<"a">>, <<"a">>, 2)>>
    /\ nextNewsId = 2
    /\ nextCommentId = 1
    /\ lastOp = NoOp
    /\ basePopularity = newsInteractions
    /\ baseContribution = userInteractions
    /\ nAdded = 0
    /\ nDeleted = 0
    /\ pending = [s \in Slots |-> Idle]
    /\ PathIdle

\* deleteComment up to the ownership check: throws, or goes on to the transaction
DeleteCommentStart(slot, session, commentId) ==
    /\ pending[slot] = Idle
    /\ LET found == DeleteCommentLookup(session, commentId)
       IN  IF found # "ok"
           THEN /\ lastOp' = Op("deleteComment", found, session, commentId)
                /\ UNCHANGED pending
           ELSE /\ pending' = [pending EXCEPT ![slot] =
                                  [commentId |-> commentId, session |-> session,
                                   comment |-> comments[commentId]]]
                /\ UNCHANGED lastOp
    /\ UNCHANGED <<news, sections, newsInteractions, userInteractions, comments, logs,
                   nextNewsId, nextCommentId, basePopularity, baseContribution,
                   nAdded, nDeleted, pathVars>>

\* the transaction of a deleteComment whose lookup has passed
DeleteCommentCommit(slot) ==
    /\ pending[slot] # Idle
    /\ LET req == pending[slot]
           tx  == DeleteCommentTx(req.commentId, req.comment)
       IN  /\ lastOp' = Op("deleteComment", tx.result, req.session, req.commentId)
           /\ comments' = tx.comments
           /\ newsInteractions' = tx.newsInteractions
           /\ userInteractions' = tx.userInteractions
           /\ nDeleted' = IF tx.result = Success THEN nDeleted + 1 ELSE nDeleted
    /\ pending' = [pending EXCEPT ![slot] = Idle]
    /\ UNCHANGED <<news, sections, logs, nextNewsId, nextCommentId, basePopularity,
                   baseContribution, nAdded, pathVars>>

NextConc ==
    \/ \E session \in Sessions, id \in NewsIds, textLen \in TextLens :
          AddComment(session, id, textLen)
    \/ \E slot \in Slots, session \in Sessions, c \in CommentIds :
          DeleteCommentStart(slot, session, c)
    \/ \E slot \in Slots : DeleteCommentCommit(slot)

SpecConc == InitConc /\ [][NextConc]_vars

-----------------------------------------------------------------------------
(* Specification: news requests served one at a time, with titles that share  *)
(* a slug and titles that do not, and two section lists                       *)

MaxNewsLogs == 3

NewsTitles == {<<"a">>, <<"A", "!">>, <<"b">>}
NewsOwners == {"u1"}
NewsSectionInputs == {<<ImageSection(0), TextSection(1)>>, <<TextSection(0)>>}

RichNewsInputs ==
    [title : NewsTitles \cup {<<>>}, userId : NewsOwners, sections : NewsSectionInputs]

InitNews == DbIdle /\ PathIdle

NextNews ==
    \/ \E data \in RichNewsInputs : CreateNews(data)
    \/ \E id \in NewsIds, data \in RichNewsInputs : UpdateNewsWithin(MaxNewsLogs, id, data)
    \/ \E id \in NewsIds : DeleteNews(id)

SpecNews == InitNews /\ [][NextNews]_vars

-----------------------------------------------------------------------------
(* Specification: news requests served one at a time, long enough for a slug  *)
(* to be vacated and taken again; every request carries the same sections     *)

MaxSlugLogs == 4

SlugNewsInputs ==
    [title : NewsTitles \cup {<<>>}, userId : NewsOwners,
     sections : {<<ImageSection(0), TextSection(1)>>}]

NextSlug ==
    \/ \E data \in SlugNewsInputs : CreateNews(data)
    \/ \E id \in NewsIds, data \in SlugNewsInputs : UpdateNewsWithin(MaxSlugLogs, id, data)
    \/ \E id \in NewsIds : DeleteNews(id)

SpecSlug == InitNews /\ [][NextSlug]_vars

-----------------------------------------------------------------------------
(* Specification: concurrent news requests. createNews and updateNews read    *)
(* the existing paths (and updateNews the current row) before their           *)
(* transaction starts and re-read the item after it; other requests run in    *)
(* between. The store refuses a write that would give two rows one path.      *)

MaxConcLogs == 3

NewsSlots == {1, 2}
NewsIdle == [stage |-> "idle"]

ConcTitles == {<<"a">>, <<"A", "!">>}
ConcNewsInputs ==
    [title : ConcTitles \cup {<<>>}, userId : {"u1"},
     sections : {<<ImageSection(0), TextSection(1)>>}]

\* the unique rule on path: another row already has this path
PathTaken(path, id) == \E i \in DOMAIN news \ {id} : news[i].path = path

InitNewsConc ==
    /\ news = EmptyFn
    /\ sections = EmptyFn
    /\ newsInteractions = EmptyFn
    /\ userInteractions = EmptyFn
    /\ comments = EmptyFn
    /\ logs = <<>>
    /\ nextNewsId = 1
    /\ nextCommentId = 1
    /\ lastOp = NoOp
    /\ basePopularity = EmptyFn
    /\ baseContribution = EmptyFn
    /\ nAdded = 0
    /\ nDeleted = 0
    /\ pending = [s \in NewsSlots |-> NewsIdle]
    /\ PathIdle

ConcUntouched ==
    UNCHANGED <<userInteractions, comments, nextCommentId, basePopularity,
                baseContribution, nAdded, nDeleted, pathVars>>

\* createNews up to the start of its transaction
CreateNewsStart(slot, data) ==
    /\ pending[slot].stage = "idle"
    /\ IF NewsValidation(data) # "ok"
       THEN /\ lastOp' = NewsOp("createNews", NewsValidation(data), 0, "none")
            /\ UNCHANGED pending
       ELSE /\ pending' = [pending EXCEPT ![slot] =
                             [stage |-> "ready", op |-> "createNews", id |-> 0,
                              data |-> data, snapshot |-> getAllExistingPaths,
                              oldTitle |-> <<>>, oldPath |-> <<>>,
                              path |-> generatePath(data.title, getAllExistingPaths)]]
            /\ UNCHANGED lastOp
    /\ UNCHANGED <<news, sections, newsInteractions, logs, nextNewsId>>
    /\ ConcUntouched

\* the transaction of createNews
CreateNewsCommit(slot) ==
    /\ pending[slot].stage = "ready"
    /\ pending[slot].op = "createNews"
    /\ IF PathTaken(pending[slot].path, 0)
       THEN /\ lastOp' = NewsOp("createNews", handleError(PrismaError("P2002")), 0, "tx")
            /\ pending' = [pending EXCEPT ![slot] = NewsIdle]
            /\ UNCHANGED <<news, sections, newsInteractions, logs, nextNewsId>>
       ELSE LET data == pending[slot].data
                id   == nextNewsId
            IN  /\ nextNewsId <= MaxNews
                /\ Len(logs) < MaxConcLogs
                /\ news' = With(news, id, [title |-> data.title,
                                           path |-> pending[slot].path,
                                           userId |-> data.userId])
                /\ newsInteractions' = With(newsInteractions, id, 0)
                /\ sections' = With(sections, id, SectionRows(data.sections))
                /\ logs' = Append(logs, LogEntry(data.userId, "NEWS_CREATED", id,
                                                 data.title, pending[slot].path,
                                                 Len(data.sections)))
                /\ nextNewsId' = nextNewsId + 1
                /\ pending' = [pending EXCEPT ![slot].stage = "committed", ![slot].id = id]
                /\ UNCHANGED lastOp
    /\ ConcUntouched

\* updateNews: getAllExistingPaths()
UpdateNewsReadPaths(slot, id, data) ==
    /\ pending[slot].stage = "idle"
    \* ids are generated by the store: a request names an id that was issued
    /\ id < nextNewsId
    /\ IF NewsValidation(data) # "ok"
       THEN /\ lastOp' = NewsOp("updateNews", NewsValidation(data), id, "none")
            /\ UNCHANGED pending
       ELSE /\ pending' = [pending EXCEPT ![slot] =
                             [stage |-> "paths", op |-> "updateNews", id |-> id,
                              data |-> data, snapshot |-> getAllExistingPaths,
                              oldTitle |-> <<>>, oldPath |-> <<>>, path |-> <<>>]]
            /\ UNCHANGED lastOp
    /\ UNCHANGED <<news, sections, newsInteractions, logs, nextNewsId>>
    /\ ConcUntouched

\* updateNews: findUnique of the current row, then the path from the snapshot
UpdateNewsReadCurrent(slot) ==
    /\ pending[slot].stage = "paths"
    /\ LET id       == pending[slot].id
           found    == id \in DOMAIN news
           filtered == IF found THEN pending[slot].snapshot \ {news[id].path}
                       ELSE pending[slot].snapshot
       IN  pending' = [pending EXCEPT
                         ![slot].stage = "ready",
                         ![slot].oldTitle = IF found THEN news[id].title ELSE <<>>,
                         ![slot].oldPath = IF found THEN news[id].path ELSE <<>>,
                         ![slot].path = generatePath(pending[slot].data.title, filtered)]
    /\ UNCHANGED <<news, sections, newsInteractions, logs, nextNewsId, lastOp>>
    /\ ConcUntouched

\* the transaction of updateNews
UpdateNewsCommit(slot) ==
    /\ pending[slot].stage = "ready"
    /\ pending[slot].op = "updateNews"
    /\ LET id   == pending[slot].id
           data == pending[slot].data
       IN  IF id \notin DOMAIN news
           THEN /\ lastOp' = NewsOp("updateNews", handleError(PrismaError("P2025")), id, "tx")
                /\ pending' = [pending EXCEPT ![slot] = NewsIdle]
                /\ UNCHANGED <<news, sections, logs>>
           ELSE IF PathTaken(pending[slot].path, id)
           THEN /\ lastOp' = NewsOp("updateNews", handleError(PrismaError("P2002")), id, "tx")
                /\ pending' = [pending EXCEPT ![slot] = NewsIdle]
                /\ UNCHANGED <<news, sections, logs>>
           ELSE /\ Len(logs) < MaxConcLogs
                /\ news' = [news EXCEPT ![id] = [title |-> data.title,
                                                 path |-> pending[slot].path,
                                                 userId |-> data.userId]]
                /\ sections' = [sections EXCEPT ![id] = ReplaceSections(sections[id], data.sections)]
                /\ logs' = Append(logs,
                             UpdateLogEntry(data.userId, id, pending[slot].oldTitle,
                                            data.title, pending[slot].oldPath,
                                            pending[slot].path, Len(data.sections)))
                /\ pending' = [pending EXCEPT ![slot].stage = "committed"]
                /\ UNCHANGED lastOp
    /\ UNCHANGED <<newsInteractions, nextNewsId>>
    /\ ConcUntouched

\* getNewsById after the transaction, and the return
NewsFinish(slot) ==
    /\ pending[slot].stage = "committed"
    /\ lastOp' = NewsOp(pending[slot].op,
                        IF pending[slot].id \in DOMAIN news THEN Success
                        ELSE handleError(PlainError(
                                 IF pending[slot].op = "createNews" THEN FailedToCreate
                                 ELSE FailedToUpdate)),
                        pending[slot].id, "none")
    /\ pending' = [pending EXCEPT ![slot] = NewsIdle]
    /\ UNCHANGED <<news, sections, newsInteractions, logs, nextNewsId>>
    /\ ConcUntouched

\* deleteNews is one transaction
DeleteNewsConc(id) ==
    /\ DeleteNews(id)
    /\ lastOp'.fault # "tx" \/ lastOp'.result = NewsNotFound

NextNewsConc ==
    \/ \E slot \in NewsSlots, data \in ConcNewsInputs : CreateNewsStart(slot, data)
    \/ \E slot \in NewsSlots : CreateNewsCommit(slot)
    \/ \E slot \in NewsSlots, id \in NewsIds, data \in ConcNewsInputs :
          UpdateNewsReadPaths(slot, id, data)
    \/ \E slot \in NewsSlots : UpdateNewsReadCurrent(slot)
    \/ \E slot \in NewsSlots : UpdateNewsCommit(slot)
    \/ \E slot \in NewsSlots : NewsFinish(slot)
    \/ \E id \in NewsIds : DeleteNewsConc(id)

SpecNewsConc == InitNewsConc /\ [][NextNewsConc]_vars

-----------------------------------------------------------------------------
(* Specification: reads against a writer whose transaction runs statement by  *)
(* statement. The open transaction works on its own copy of the rows, which   *)
(* replaces the stored rows at commit and is dropped when a statement throws; *)
(* a read is one query of the stored rows.                                    *)

MaxReadLogs == 2

ReadInputs ==
    {[title |-> <<"a">>, userId |-> "u1",
      sections |-> <<ImageSection(0), TextSection(1)>>],
     [title |-> <<"b">>, userId |-> "u1", sections |-> <<TextSection(0)>>]}

\* u1 has a user-interaction row, u3 has none
ReadUsers == {"u1"}
ReadSessions == {"u1", "u3"}

TxIdle == [stage |-> "idle"]

Committed ==
    [news |-> news, sections |-> sections, newsInteractions |-> newsInteractions,
     userInteractions |-> userInteractions, comments |-> comments, logs |-> logs,
     nextNewsId |-> nextNewsId, nextCommentId |-> nextCommentId]

\* section.create and the create of its payload, for each input section
SectionStatements(input) ==
    [k \in 1..(2 * Len(input)) |->
        IF k % 2 = 1 THEN "section.create" ELSE "payload.create"]

\* the statements of each transaction; the sections, which the code creates
\* under one Promise.all, are taken in input order
Program(op, data) ==
    CASE op = "createNews" ->
           <<"news.create">> \o SectionStatements(data.sections) \o <<"createLog">>
      [] op = "updateNews" ->
           <<"news.update", "section.deleteMany">>
               \o SectionStatements(data.sections) \o <<"createLog">>
      [] op = "addComment" ->
           <<"newsInteraction.findFirst", "userInteraction.findFirst", "comment.create",
             "newsInteraction.increment", "userInteraction.increment">>
      [] op = "deleteComment" ->
           <<"comment.delete", "newsInteraction.decrement", "userInteraction.decrement">>

Tx(op, id, user, commentId, data, path, oldTitle, oldPath) ==
    [stage |-> "open", op |-> op, pc |-> 1, program |-> Program(op, data),
     id |-> id, user |-> user, commentId |-> commentId, data |-> data, path |-> path,
     oldTitle |-> oldTitle, oldPath |-> oldPath, w |-> Committed]

NoData == [title |-> <<>>, userId |-> NoSession, sections |-> <<>>]

\* the next statement of transaction t, run on the transaction's rows
Exec(t) ==
    LET w    == t.w
        stmt == t.program[t.pc]
        id   == t.id
        data == t.data
        Ok(w2)    == [ok |-> TRUE, error |-> "", w |-> w2]
        Fail(msg) == [ok |-> FALSE, error |-> msg, w |-> w]
    IN  CASE stmt = "news.create" ->
               \* the interaction row is a nested create of the same statement
               Ok([w EXCEPT !.news = With(w.news, id, [title |-> data.title,
                                                       path |-> t.path,
                                                       userId |-> data.userId]),
                            !.newsInteractions = With(w.newsInteractions, id, 0),
                            !.nextNewsId = @ + 1])
          [] stmt = "section.create" ->
               LET rows == IF id \in DOMAIN w.sections THEN w.sections[id] ELSE <<>>
                   sec  == data.sections[Len(rows) + 1]
               IN  Ok([w EXCEPT !.sections =
                         With(w.sections, id,
                              Append(rows, [order |-> sec.order,
                                            isSeparator |-> sec.isSeparator,
                                            sectionTexts |-> 0, sectionImages |-> 0]))])
          [] stmt = "payload.create" ->
               LET rows == w.sections[id]
               IN  Ok([w EXCEPT !.sections[id][Len(rows)] =
                                    SectionRow(data.sections[Len(rows)])])
          [] stmt = "createLog" ->
               Ok([w EXCEPT !.logs =
                     Append(w.logs,
                            IF t.op = "createNews"
                            THEN LogEntry(data.userId, "NEWS_CREATED", id, data.title,
                                          t.path, Len(data.sections))
                            ELSE UpdateLogEntry(data.userId, id, t.oldTitle, data.title,
                                                t.oldPath, t.path, Len(data.sections)))])
          [] stmt = "news.update" ->
               IF id \notin DOMAIN w.news THEN Fail(handleError(PrismaError("P2025")))
               ELSE Ok([w EXCEPT !.news[id] = [title |-> data.title, path |-> t.path,
                                               userId |-> data.userId]])
          [] stmt = "section.deleteMany" ->
               Ok([w EXCEPT !.sections = With(w.sections, id, <<>>)])
          [] stmt = "newsInteraction.findFirst" ->
               IF id \notin DOMAIN w.newsInteractions THEN Fail(NewsInteractionNotFound)
               ELSE Ok(w)
          [] stmt = "userInteraction.findFirst" ->
               IF t.user \notin DOMAIN w.userInteractions
               THEN Fail(UserInteractionNotFound)
               ELSE Ok(w)
          [] stmt = "comment.create" ->
               Ok([w EXCEPT !.comments =
                              With(w.comments, w.nextCommentId,
                                   [newsInteractionId |-> id, userInteractionId |-> t.user]),
                            !.nextCommentId = @ + 1])
          [] stmt = "newsInteraction.increment" ->
               Ok([w EXCEPT !.newsInteractions[id] = @ + PopularityIncrement])
          [] stmt = "userInteraction.increment" ->
               Ok([w EXCEPT !.userInteractions[t.user] = @ + ContributionIncrement])
          [] stmt = "comment.delete" ->
               IF t.commentId \notin DOMAIN w.comments THEN Fail(RecordNotFound)
               ELSE Ok([w EXCEPT !.comments = Without(w.comments, t.commentId)])
          [] stmt = "newsInteraction.decrement" ->
               Ok([w EXCEPT !.newsInteractions[id] = @ - PopularityDecrement])
          [] stmt = "userInteraction.decrement" ->
               Ok([w EXCEPT !.userInteractions[t.user] = @ - ContributionDecrement])

InitRead ==
    /\ news = EmptyFn
    /\ sections = EmptyFn
    /\ newsInteractions = EmptyFn
    /\ userInteractions = [u \in ReadUsers |-> 0]
    /\ comments = EmptyFn
    /\ logs = <<>>
    /\ nextNewsId = 1
    /\ nextCommentId = 1
    /\ lastOp = NoOp
    /\ basePopularity = EmptyFn
    /\ baseContribution = EmptyFn
    /\ nAdded = 0
    /\ nDeleted = 0
    /\ pending = TxIdle
    /\ PathIdle

ReadUntouched ==
    UNCHANGED <<basePopularity, baseContribution, nAdded, nDeleted, pathVars>>

StoredUnchanged ==
    UNCHANGED <<news, sections, newsInteractions, userInteractions, comments, logs,
                nextNewsId, nextCommentId>>

\* createNews up to prisma.$transaction
BeginCreateNews(data) ==
    /\ pending.stage = "idle"
    /\ NewsValidation(data) = "ok"
    /\ nextNewsId <= MaxNews
    /\ pending' = Tx("createNews", nextNewsId, NoSession, 0, data,
                     generatePath(data.title, getAllExistingPaths), <<>>, <<>>)
    /\ UNCHANGED lastOp
    /\ StoredUnchanged
    /\ ReadUntouched

\* updateNews up to prisma.$transaction
BeginUpdateNews(id, data) ==
    /\ pending.stage = "idle"
    /\ NewsValidation(data) = "ok"
    /\ id < nextNewsId
    /\ Len(logs) < MaxReadLogs
    /\ pending' = Tx("updateNews", id, NoSession, 0, data,
                     generatePath(data.title, filteredPaths(id)),
                     IF id \in DOMAIN news THEN news[id].title ELSE <<>>,
                     IF id \in DOMAIN news THEN news[id].path ELSE <<>>)
    /\ UNCHANGED lastOp
    /\ StoredUnchanged
    /\ ReadUntouched

\* addComment up to prisma.$transaction
BeginAddComment(user, newsId) ==
    /\ pending.stage = "idle"
    /\ newsId < nextNewsId
    /\ nextCommentId <= MaxComments
    /\ pending' = Tx("addComment", newsId, user, 0, NoData, <<>>, <<>>, <<>>)
    /\ UNCHANGED lastOp
    /\ StoredUnchanged
    /\ ReadUntouched

\* deleteComment up to prisma.$transaction
BeginDeleteComment(user, commentId) ==
    /\ pending.stage = "idle"
    /\ DeleteCommentLookup(user, commentId) = "ok"
    /\ pending' = Tx("deleteComment", comments[commentId].newsInteractionId, user,
                     commentId, NoData, <<>>, <<>>, <<>>)
    /\ UNCHANGED lastOp
    /\ StoredUnchanged
    /\ ReadUntouched

\* one statement of the open transaction; a statement that throws ends the
\* transaction and its rows are dropped
TxStep ==
    /\ pending.stage = "open"
    /\ pending.pc <= Len(pending.program)
    /\ LET r == Exec(pending)
       IN  IF r.ok
           THEN /\ pending' = [pending EXCEPT !.pc = @ + 1, !.w = r.w]
                /\ UNCHANGED lastOp
           ELSE /\ pending' = TxIdle
                /\ lastOp' = Op(pending.op, r.error, pending.user, pending.id)
    /\ StoredUnchanged
    /\ ReadUntouched

\* the end of the transaction callback: the transaction's rows become the
\* stored rows
TxCommit ==
    /\ pending.stage = "open"
    /\ pending.pc > Len(pending.program)
    /\ news' = pending.w.news
    /\ sections' = pending.w.sections
    /\ newsInteractions' = pending.w.newsInteractions
    /\ userInteractions' = pending.w.userInteractions
    /\ comments' = pending.w.comments
    /\ logs' = pending.w.logs
    /\ nextNewsId' = pending.w.nextNewsId
    /\ nextCommentId' = pending.w.nextCommentId
    /\ pending' = TxIdle
    /\ lastOp' = Op(pending.op, Success, pending.user, pending.id)
    /\ ReadUntouched

\* a read that sees the rows of the open transaction
ReadSource_Working(committed, working) == working

\* the rows a query outside the transaction sees while it is open
ReadSource(committed, working) == committed

Visible ==
    IF pending.stage = "open" THEN ReadSource(Committed, pending.w) ELSE Committed

\* the item with its included sections, interaction and comments
NewsView(src, id) ==
    [title |-> src.news[id].title,
     path |-> src.news[id].path,
     sections |-> IF id \in DOMAIN src.sections THEN src.sections[id] ELSE <<>>,
     newsInteractions |->
         IF id \in DOMAIN src.newsInteractions
         THEN <<[popularityScore |-> src.newsInteractions[id],
                 comments |-> {c \in DOMAIN src.comments :
                                  src.comments[c].newsInteractionId = id}]>>
         ELSE <<>>]

\* what a read returns, and the transaction that was open while it ran
ReadOp(op, target, result) ==
    [op |-> op, result |-> result, user |-> NoSession, target |-> target,
     txop |-> IF pending.stage = "open" THEN pending.op ELSE "none",
     txid |-> IF pending.stage = "open" THEN pending.id ELSE 0,
     txpc |-> IF pending.stage = "open" THEN pending.pc ELSE 0]

\* getNewsById: the item, or nothing
GetNewsById(id) ==
    /\ lastOp' = ReadOp("getNewsById", id,
                        IF id \in DOMAIN Visible.news THEN <<NewsView(Visible, id)>>
                        ELSE <<>>)
    /\ UNCHANGED pending
    /\ StoredUnchanged
    /\ ReadUntouched

\* getNews: every item
GetNews ==
    /\ lastOp' = ReadOp("getNews", 0,
                        [id \in DOMAIN Visible.news |-> NewsView(Visible, id)])
    /\ UNCHANGED pending
    /\ StoredUnchanged
    /\ ReadUntouched

\* getNewsComments: the interaction row with its comments and their authors
GetNewsComments(newsId) ==
    /\ lastOp' = ReadOp("getNewsComments", newsId,
                        IF newsId \in DOMAIN Visible.newsInteractions
                        THEN <<[popularityScore |-> Visible.newsInteractions[newsId],
                                comments |->
                                    {[id |-> c,
                                      userId |-> Visible.comments[c].userInteractionId,
                                      contributionScore |->
                                          Visible.userInteractions[
                                              Visible.comments[c].userInteractionId]] :
                                       c \in {x \in DOMAIN Visible.comments :
                                                Visible.comments[x].newsInteractionId
                                                    = newsId}}]>>
                        ELSE <<>>)
    /\ UNCHANGED pending
    /\ StoredUnchanged
    /\ ReadUntouched

NextRead ==
    \/ \E data \in ReadInputs : BeginCreateNews(data)
    \/ \E id \in NewsIds, data \in ReadInputs : BeginUpdateNews(id, data)
    \/ \E user \in ReadSessions, id \in NewsIds : BeginAddComment(user, id)
    \/ \E user \in ReadSessions, c \in CommentIds : BeginDeleteComment(user, c)
    \/ TxStep
    \/ TxCommit
    \/ \E id \in NewsIds : GetNewsById(id)
    \/ GetNews
    \/ \E id \in NewsIds : GetNewsComments(id)

SpecRead == InitRead /\ [][NextRead]_vars

-----------------------------------------------------------------------------
(* Specification of handleError: one caught value, translated once *)

MaxIssues == 3

PrismaCodes == {"P2002", "P2025", "P2003", "P2000", "P2001", "P2014", "P2034"}
ZodMessages == {"Required", "String must contain at least 1 character(s)",
                "String must contain at most 200 character(s)"}
ErrorMessages == {"Failed to create news", "Failed to update news", "News not found",
                  "Unauthorized", "connect ECONNREFUSED"}
ThrownValues == {"null", "undefined", "timeout", "42"}

IssueLists == UNION {[1..n -> ZodMessages] : n \in 1..MaxIssues}

CaughtValues ==
    {PrismaError(code) : code \in PrismaCodes}
        \cup {ZodError(messages) : messages \in IssueLists}
        \cup {PlainError(message) : message \in ErrorMessages}
        \cup {NonError(value) : value \in ThrownValues}

InitErr ==
    /\ news = EmptyFn
    /\ sections = EmptyFn
    /\ newsInteractions = EmptyFn
    /\ userInteractions = EmptyFn
    /\ comments = EmptyFn
    /\ logs = <<>>
    /\ nextNewsId = 1
    /\ nextCommentId = 1
    /\ lastOp = NoOp
    /\ basePopularity = EmptyFn
    /\ baseContribution = EmptyFn
    /\ nAdded = 0
    /\ nDeleted = 0
    /\ pending \in CaughtValues
    /\ PathIdle

\* catch (error) { handleError(error); }
HandleError ==
    /\ lastOp.op = "none"
    /\ lastOp' = Op("handleError", handleError(pending), NoSession, 0)
    /\ UNCHANGED <<news, sections, newsInteractions, userInteractions, comments, logs,
                   nextNewsId, nextCommentId, basePopularity, baseContribution,
                   nAdded, nDeleted, pending, pathVars>>

NextErr == HandleError

SpecErr == InitErr /\ [][NextErr]_vars

-----------------------------------------------------------------------------
(* calculateTrend. A number is an exact fraction num/den with den > 0, or one *)
(* of the values NaN, Infinity and -Infinity that a division by 0 gives.      *)

MaxCount == 10

Num(num, den) == [kind |-> "number", num |-> num, den |-> den]
NaN == [kind |-> "NaN", num |-> 0, den |-> 0]
Infinity(sign) == [kind |-> "Infinity", num |-> sign, den |-> 0]

\* a / b for integers a and b >= 0
Divide(a, b) ==
    IF b = 0
    THEN IF a = 0 THEN NaN ELSE Infinity(IF a > 0 THEN 1 ELSE 0 - 1)
    ELSE Num(a, b)

\* x * k for an integer k > 0
Times(x, k) == IF x.kind = "number" THEN Num(x.num * k, x.den) ELSE x

\* calculateTrend without the test of previous
calculateTrend_NoZeroCheck(current, previous) ==
    Times(Divide(current - previous, previous), 100)

calculateTrend(current, previous) ==
    IF previous = 0 THEN Num(0, 1)
    ELSE Times(Divide(current - previous, previous), 100)

Counts == 0..MaxCount

InitTrend ==
    /\ news = EmptyFn
    /\ sections = EmptyFn
    /\ newsInteractions = EmptyFn
    /\ userInteractions = EmptyFn
    /\ comments = EmptyFn
    /\ logs = <<>>
    /\ nextNewsId = 1
    /\ nextCommentId = 1
    /\ lastOp = NoOp
    /\ basePopularity = EmptyFn
    /\ baseContribution = EmptyFn
    /\ nAdded = 0
    /\ nDeleted = 0
    /\ pending \in [today : Counts, yesterday : Counts]
    /\ PathIdle

\* calculateTrend(todayCount, yesterdayCount) in getDashboardData
CalculateTrend ==
    /\ lastOp.op = "none"
    /\ lastOp' = Op("calculateTrend", calculateTrend(pending.today, pending.yesterday),
                    NoSession, 0)
    /\ UNCHANGED <<news, sections, newsInteractions, userInteractions, comments, logs,
                   nextNewsId, nextCommentId, basePopularity, baseContribution,
                   nAdded, nDeleted, pending, pathVars>>

NextTrend == CalculateTrend

SpecTrend == InitTrend /\ [][NextTrend]_vars

-----------------------------------------------------------------------------
(* Specification of one PathGenerator instance *)

\* new PathGenerator(existingPaths)
InitPath ==
    /\ DbIdle
    /\ existingPaths \in InitialUsedSets
    /\ initialPaths = existingPaths
    /\ returned = <<>>
    /\ lastCall = NoCall

\* pathGenerator.generatePath(title)
GeneratePath(title) ==
    /\ Len(returned) < MaxCalls
    /\ LET uniquePath == generatePath(title, existingPaths)
       IN  /\ existingPaths' = generatePathAdd(title, existingPaths)
           /\ returned' = Append(returned, uniquePath)
           /\ lastCall' = [title |-> title, before |-> existingPaths,
                           result |-> uniquePath, called |-> TRUE]
    /\ UNCHANGED <<initialPaths, dbVars>>

NextPath == \E title \in Titles : GeneratePath(title)

SpecPath == InitPath /\ [][NextPath]_vars

-----------------------------------------------------------------------------
(* Properties of the PathGenerator *)

IsPrefix(p, s) == Len(p) <= Len(s) /\ SubSeq(s, 1, Len(p)) = p

SlugChars == Range(Lowers) \cup Range(Digits) \cup {separator}

WellFormedSlug(s) ==
    /\ \A i \in 1..Len(s) : s[i] \in SlugChars
    /\ Len(s) > 0 => (s[1] # separator /\ s[Len(s)] # separator)
    /\ \A i \in 1..(Len(s) - 1) : ~(s[i] = separator /\ s[i + 1] = separator)

\* C7: for one generator, no returned slug was in the initial used set and no
\* slug is returned twice, whatever titles are passed.
C7_ReturnedSlugsAreFresh ==
    /\ \A i \in 1..Len(returned) : returned[i] \notin initialPaths
    /\ \A i, j \in 1..Len(returned) : i # j => returned[i] # returned[j]

\* a second call whose base slug collides with the slug the first call returned
C7_Witness ==
    /\ Len(returned) = 2
    /\ slugify(lastCall.title) = returned[1]
    /\ returned[2] # returned[1]

\* C8: every returned slug has length <= maxLength.
C8_ReturnedSlugWithinMaxLength ==
    \A i \in 1..Len(returned) : Len(returned[i]) <= maxLength

\* a colliding base of at least maxLength - 2 characters whose suffixed
\* candidate had to be re-truncated
C8_Witness ==
    /\ lastCall.called
    /\ Len(slugify(lastCall.title)) >= maxLength - 2
    /\ slugify(lastCall.title) \in lastCall.before
    /\ Len(lastCall.result) = maxLength
    /\ ~IsPrefix(slugify(lastCall.title), lastCall.result)

\* C9: every returned slug consists of lowercase letters, digits and single
\* separators, with no leading, trailing or doubled separator.
C9_ReturnedSlugWellFormed ==
    \A i \in 1..Len(returned) : WellFormedSlug(returned[i])

\* C10: an unused base slug is returned without a suffix; a used one is returned
\* as (a prefix of) the base followed by -n, n >= 1, where every smaller
\* positive integer's candidate is in the used set.
C10_SuffixIsSmallestFree ==
    lastCall.called =>
        LET base == slugify(lastCall.title)
            used == lastCall.before
            r    == lastCall.result
            Candidate(k, m) == SubSeq(base, 1, k) \o <<separator>> \o NatToStr(m)
        IN  IF base \notin used
            THEN IsPrefix(r, base) /\ (Len(base) <= maxLength => r = base)
            ELSE \E n \in 1..(Cardinality(used) + 2) :
                    /\ \E k \in 0..Len(base) : r = Candidate(k, n)
                    /\ \A m \in 1..(n - 1) :
                          \E k \in 0..Len(base) : Candidate(k, m) \in used

-----------------------------------------------------------------------------
(* Properties of the scores *)

CommentsOn(newsId) == {c \in DOMAIN comments : comments[c].newsInteractionId = newsId}
CommentsBy(user)   == {c \in DOMAIN comments : comments[c].userInteractionId = user}

\* C1: in every state reached by createNews, updateNews, deleteNews, addComment
\* and deleteComment from an empty store, the popularity score of every item is
\* twice the number of its live comments.
C1_PopularityIsTwiceLiveComments ==
    \A n \in DOMAIN newsInteractions :
        newsInteractions[n] = 2 * Cardinality(CommentsOn(n))

\* two comments were added and one of them deleted again
C1_Witness ==
    /\ nAdded = 2
    /\ nDeleted = 1
    /\ \E n \in DOMAIN newsInteractions : Cardinality(CommentsOn(n)) = 1

\* C2: in every such state the contribution score of every user is twice the
\* number of live comments of that user, also after an item carrying the
\* user's comments was deleted.
C2_ContributionIsTwiceLiveComments ==
    \A u \in DOMAIN userInteractions :
        userInteractions[u] = 2 * Cardinality(CommentsBy(u))

\* C3: for one item/user pair with scores that predate the run, after N
\* successful addComment and M successful deleteComment calls and any number of
\* failed calls, both scores are their earlier value plus 2 * (N - M).
C3_ScoresAreBasePlusNetComments ==
    /\ newsInteractions[1] = basePopularity[1] + 2 * (nAdded - nDeleted)
    /\ userInteractions["u1"] = baseContribution["u1"] + 2 * (nAdded - nDeleted)

\* two adds, one delete, then a failed call, from non-zero scores
C3_Witness ==
    /\ nAdded = 2
    /\ nDeleted = 1
    /\ lastOp.result # Success
    /\ basePopularity[1] # 0
    /\ baseContribution["u1"] # basePopularity[1]

\* C4: under every interleaving of addComment and deleteComment requests, every
\* score is its initial value plus twice the live comments, and every comment
\* created is either live or was deleted exactly once.
C4_ScoresConsistentUnderInterleaving ==
    /\ \A n \in DOMAIN newsInteractions :
          newsInteractions[n] = basePopularity[n] + 2 * Cardinality(CommentsOn(n))
    /\ \A u \in DOMAIN userInteractions :
          userInteractions[u] = baseContribution[u] + 2 * Cardinality(CommentsBy(u))
    /\ Cardinality(DOMAIN comments) = nAdded - nDeleted

\* two deleteComment requests read the same comment; one transaction deleted
\* it and the other one has just failed on the missing row
C4_Witness ==
    /\ lastOp.op = "deleteComment"
    /\ lastOp.result = RecordNotFound
    /\ nDeleted >= 1

\* C5: deleteComment by a signed-in user who is not the author fails with
\* 'Unauthorized' and leaves the comment and both scores as they were.
C5_NonAuthorDeleteChangesNothing ==
    [][(/\ lastOp'.op = "deleteComment"
        /\ lastOp'.user \in Users
        /\ lastOp'.target \in DOMAIN comments
        /\ comments[lastOp'.target].userInteractionId # lastOp'.user)
       => (/\ lastOp'.result = Unauthorized
           /\ comments' = comments
           /\ newsInteractions' = newsInteractions
           /\ userInteractions' = userInteractions)]_vars

\* a signed-in user has just been refused the deletion of a live comment of
\* another user
C5_Witness ==
    /\ lastOp.op = "deleteComment"
    /\ lastOp.result = Unauthorized
    /\ lastOp.user \in Users
    /\ lastOp.target \in DOMAIN comments
    /\ comments[lastOp.target].userInteractionId # lastOp.user

\* C6: an addComment that passed validation and has a session fails with a
\* not-found error when the item has no interaction row or the user has no
\* user-interaction row, and then inserts nothing and changes no score; when
\* it succeeds, one comment linked to both rows is inserted and both scores
\* rise by 2; an addComment that fails for any reason changes nothing.
C6_AddCommentAllOrNothing ==
    [][lastOp'.op = "addComment" =>
        LET n == lastOp'.target
            u == lastOp'.user
            r == lastOp'.result
        IN  /\ r \notin {CommentEmpty, CommentTooLong, Unauthorized} =>
                  IF n \notin DOMAIN newsInteractions \/ u \notin DOMAIN userInteractions
                  THEN r \in {NewsInteractionNotFound, UserInteractionNotFound}
                  ELSE r = Success
            /\ r # Success =>
                  /\ comments' = comments
                  /\ newsInteractions' = newsInteractions
                  /\ userInteractions' = userInteractions
            /\ r = Success =>
                  /\ \E c \in DOMAIN comments' \ DOMAIN comments :
                        comments' = With(comments, c,
                            [newsInteractionId |-> n, userInteractionId |-> u])
                  /\ newsInteractions' = [newsInteractions EXCEPT ![n] = @ + 2]
                  /\ userInteractions' = [userInteractions EXCEPT ![u] = @ + 2]]_vars

\* after a successful addComment, one by a user without a user-interaction
\* row has just failed
C6_Witness ==
    /\ lastOp.op = "addComment"
    /\ lastOp.result = UserInteractionNotFound
    /\ lastOp.target \in DOMAIN newsInteractions
    /\ comments # EmptyFn

-----------------------------------------------------------------------------
(* Properties of the news operations *)

\* the step is a successful updateNews of item id
UpdateSucceeded(id) ==
    /\ lastOp'.op = "updateNews"
    /\ lastOp'.result = Success
    /\ lastOp'.target = id
    /\ logs' # logs

OtherPaths(id) == {news[i].path : i \in DOMAIN news \ {id}}

\* the k-th slug makeUnique tries for a base that needs no truncation
Candidate(base, k) ==
    IF k = 0 THEN base ELSE base \o <<separator>> \o NatToStr(k)

\* the item's slug is a candidate for its title and every candidate tried
\* before it is the slug of another item
EarlierCandidatesTaken(id) ==
    \E k \in 0..MaxNews :
        /\ news[id].path = Candidate(slugify(news[id].title), k)
        /\ \A j \in 0..(k - 1) : Candidate(slugify(news[id].title), j) \in OtherPaths(id)

\* C11 as stated: updateNews with the item's title unchanged leaves the
\* item's slug unchanged, whatever the other items' slugs are
C11_UnchangedTitleKeepsSlug_Original ==
    [][\A id \in NewsIds :
          (UpdateSucceeded(id) /\ news'[id].title = news[id].title)
              => news'[id].path = news[id].path]_vars

\* C11 (amended): updateNews with the item's title unchanged leaves the
\* item's slug unchanged exactly when every slug makeUnique tries before the
\* item's own slug is held by another item; the item's own slug never
\* counts as a collision
C11_UnchangedTitleKeepsSlug ==
    [][\A id \in NewsIds :
          (UpdateSucceeded(id) /\ news'[id].title = news[id].title)
              => /\ news'[id].path = generatePath(news[id].title, OtherPaths(id))
                 /\ (news'[id].path = news[id].path) <=> EarlierCandidatesTaken(id)]_vars

\* an update with unchanged title has kept a suffixed slug
C11_Witness ==
    /\ lastOp.op = "updateNews"
    /\ lastOp.result = Success
    /\ logs # <<>>
    /\ logs[Len(logs)].action = "NEWS_UPDATED"
    /\ logs[Len(logs)].oldTitle = logs[Len(logs)].newTitle
    /\ logs[Len(logs)].oldPath = logs[Len(logs)].newPath
    /\ logs[Len(logs)].newPath # slugify(logs[Len(logs)].newTitle)

\* no two stored items have the same slug
UniquePaths ==
    \A i \in DOMAIN news : \A j \in DOMAIN news : i # j => news[i].path # news[j].path

\* the step is the transaction of the request in slot, whose path another
\* row holds by now
ConflictingCommit(slot) ==
    /\ pending[slot].stage = "ready"
    /\ pending'[slot] # pending[slot]
    /\ pending[slot].id = 0 \/ pending[slot].id \in DOMAIN news
    /\ PathTaken(pending[slot].path, pending[slot].id)

\* C12: no two stored items ever have the same slug, also when concurrent
\* createNews/updateNews requests computed their slug from the same snapshot
\* of paths; the request whose write would duplicate a stored slug fails with
\* 'A news with this path already exists' and persists nothing
C12_SlugsUniqueUnderConcurrency ==
    /\ []UniquePaths
    /\ [][\A slot \in NewsSlots :
             ConflictingCommit(slot)
                 => /\ lastOp'.result = PathExists
                    /\ lastOp'.op = pending[slot].op
                    /\ UNCHANGED <<news, sections, newsInteractions, logs, nextNewsId>>]_vars

\* a request has just failed with the conflict error while the slug it
\* computed is stored for another item
C12_Witness ==
    /\ lastOp.result = PathExists
    /\ lastOp.fault = "tx"
    /\ news # EmptyFn

\* the rows of the other items are what they were
OtherItemsUnchanged(id) ==
    /\ \A i \in DOMAIN news \ {id} :
          /\ i \in DOMAIN news' /\ news'[i] = news[i]
          /\ i \in DOMAIN sections' /\ sections'[i] = sections[i]
          /\ i \in DOMAIN newsInteractions' /\ newsInteractions'[i] = newsInteractions[i]
    /\ DOMAIN news' \ {id} = DOMAIN news \ {id}
    /\ DOMAIN sections' \ {id} = DOMAIN sections \ {id}
    /\ DOMAIN newsInteractions' \ {id} = DOMAIN newsInteractions \ {id}

\* rows is one Section per input section, in order, each with exactly one
\* payload, of the section's declared type
SectionsMatch(rows, input) ==
    /\ Len(rows) = Len(input)
    /\ \A k \in 1..Len(input) :
          /\ rows[k].order = input[k].order
          /\ rows[k].sectionTexts = (IF input[k].type = "text" THEN 1 ELSE 0)
          /\ rows[k].sectionImages = (IF input[k].type = "image" THEN 1 ELSE 0)

\* exactly one entry was appended to the log
OneLogAppended ==
    /\ Len(logs') = Len(logs) + 1
    /\ SubSeq(logs', 1, Len(logs)) = logs

NewsRowsUnchanged == UNCHANGED <<news, sections, newsInteractions, logs, nextNewsId>>

\* C13: a successful createNews adds exactly one item, one interaction record
\* with popularity 0 for it, one section with one payload of its declared type
\* per input section, and one NEWS_CREATED log entry; a createNews that fails
\* in validation or inside the transaction leaves none of these rows
C13_CreateNewsAllOrNothing ==
    [][\A data \in RichNewsInputs :
          (lastOp'.op = "createNews" /\ CreateNews(data))
              => LET id == lastOp'.target
                 IN  /\ lastOp'.result = Success
                        => /\ id \notin DOMAIN news
                           /\ id \notin DOMAIN newsInteractions
                           /\ id \notin DOMAIN sections
                           /\ DOMAIN news' = DOMAIN news \cup {id}
                           /\ news'[id].title = data.title
                           /\ news'[id].userId = data.userId
                           /\ DOMAIN newsInteractions' = DOMAIN newsInteractions \cup {id}
                           /\ newsInteractions'[id] = 0
                           /\ DOMAIN sections' = DOMAIN sections \cup {id}
                           /\ SectionsMatch(sections'[id], data.sections)
                           /\ OtherItemsUnchanged(id)
                           /\ OneLogAppended
                           /\ logs'[Len(logs')] =
                                 LogEntry(data.userId, "NEWS_CREATED", id, data.title,
                                          news'[id].path, Len(data.sections))
                     /\ lastOp'.fault # "after" /\ lastOp'.result # Success
                        => NewsRowsUnchanged]_vars

\* a createNews with an image section and a text section has succeeded
C13_Witness ==
    /\ lastOp.op = "createNews"
    /\ lastOp.result = Success
    /\ lastOp.target \in DOMAIN sections
    /\ Len(sections[lastOp.target]) = 2
    /\ sections[lastOp.target][1].sectionImages = 1
    /\ sections[lastOp.target][2].sectionTexts = 1
    /\ newsInteractions[lastOp.target] = 0
    /\ logs[Len(logs)].action = "NEWS_CREATED"

\* C14 with requests served one at a time: after a successful
\* updateNews(id, data) the item's sections are exactly those of data and one NEWS_UPDATED entry with the old and new title
\* and slug is appended; an updateNews that fails in validation or inside the
\* transaction (a non-existent id included) changes no field, slug or section
\* and adds no log entry
C14_UpdateNewsReplacesSections ==
    [][\A id \in NewsIds : \A data \in RichNewsInputs :
          (lastOp'.op = "updateNews" /\ UpdateNewsWithin(MaxNewsLogs, id, data))
              => /\ lastOp'.result = Success
                    => /\ id \in DOMAIN news
                       /\ DOMAIN news' = DOMAIN news
                       /\ news'[id].title = data.title
                       /\ news'[id].userId = data.userId
                       /\ SectionsMatch(sections'[id], data.sections)
                       /\ newsInteractions' = newsInteractions
                       /\ OtherItemsUnchanged(id)
                       /\ OneLogAppended
                       /\ logs'[Len(logs')] =
                             UpdateLogEntry(data.userId, id, news[id].title, data.title,
                                            news[id].path, news'[id].path,
                                            Len(data.sections))
                 /\ lastOp'.fault # "after" /\ lastOp'.result # Success
                    => NewsRowsUnchanged]_vars

\* an item created with two sections has been updated to one section
C14_Witness ==
    /\ lastOp.op = "updateNews"
    /\ lastOp.result = Success
    /\ lastOp.target \in DOMAIN sections
    /\ Len(sections[lastOp.target]) = 1
    /\ logs[Len(logs)].action = "NEWS_UPDATED"
    /\ logs[Len(logs)].oldTitle # logs[Len(logs)].newTitle
    /\ \E k \in 1..(Len(logs) - 1) :
          /\ logs[k].newsId = lastOp.target
          /\ logs[k].action = "NEWS_CREATED"
          /\ logs[k].sectionsCount = 2
          /\ \A j \in (k + 1)..(Len(logs) - 1) : logs[j].newsId # lastOp.target

\* the step is the successful transaction of the updateNews in slot
UpdateCommitted(slot) ==
    /\ pending[slot].stage = "ready"
    /\ pending[slot].op = "updateNews"
    /\ pending'[slot].stage = "committed"

\* C14 among concurrent requests: the transaction of a successful
\* updateNews(id, data) leaves exactly the sections of data and appends one
\* NEWS_UPDATED entry whose old title and slug are those the item had before
\* the update and whose new title and slug are those it has after it
C14_UpdateLogRecordsOldAndNew ==
    [][\A slot \in NewsSlots :
          UpdateCommitted(slot)
              => LET id   == pending[slot].id
                     data == pending[slot].data
                 IN  /\ SectionsMatch(sections'[id], data.sections)
                     /\ OneLogAppended
                     /\ logs'[Len(logs')] =
                           UpdateLogEntry(data.userId, id, news[id].title, data.title,
                                          news[id].path, news'[id].path,
                                          Len(data.sections))]_vars

\* C15: deleteNews(id) on a stored item removes the item, its sections and
\* its interaction record and appends exactly one NEWS_DELETED entry with the
\* deleted title and section count; on an id that is not stored it fails with
\* 'News not found' and changes nothing, the log included
C15_DeleteNewsRemovesItemAndLogs ==
    [][\A id \in NewsIds :
          (lastOp'.op = "deleteNews" /\ lastOp'.target = id /\ DeleteNews(id))
              => /\ (id \in DOMAIN news /\ lastOp'.fault = "none")
                    => /\ lastOp'.result = Success
                       /\ id \notin DOMAIN news'
                       /\ id \notin DOMAIN sections'
                       /\ id \notin DOMAIN newsInteractions'
                       /\ OtherItemsUnchanged(id)
                       /\ OneLogAppended
                       /\ logs'[Len(logs')].action = "NEWS_DELETED"
                       /\ logs'[Len(logs')].newsId = id
                       /\ logs'[Len(logs')].title = news[id].title
                       /\ logs'[Len(logs')].sectionsCount = Len(sections[id])
                 /\ id \notin DOMAIN news
                    => /\ lastOp'.result = NewsNotFound
                       /\ NewsRowsUnchanged]_vars

\* one of two stored items has been deleted and the deletion is logged
C15_Witness ==
    /\ lastOp.op = "deleteNews"
    /\ lastOp.result = Success
    /\ lastOp.target \notin DOMAIN news
    /\ lastOp.target \notin DOMAIN sections
    /\ news # EmptyFn
    /\ logs[Len(logs)].action = "NEWS_DELETED"
    /\ logs[Len(logs)].sectionsCount = 2

-----------------------------------------------------------------------------
(* Properties of the audit log *)

\* C16: every successful mutating operation appends an audit-log entry: the
\* log grows by at least one entry on each successful call
C16_EverySuccessfulMutationIsLogged ==
    [][lastOp'.result = Success => Len(logs') > Len(logs)]_vars

\* C17: the audit log is append-only: across every operation the existing
\* entries are unchanged and entries are only added at the end, and an
\* operation that fails adds none
C17_AuditLogAppendOnly ==
    [][/\ Len(logs) <= Len(logs')
       /\ SubSeq(logs', 1, Len(logs)) = logs
       /\ lastOp'.result # Success => logs' = logs]_vars

\* across every operation the existing entries are unchanged and entries are
\* only added at the end
AuditLogOnlyGrows ==
    [][Len(logs) <= Len(logs') /\ SubSeq(logs', 1, Len(logs)) = logs]_vars

-----------------------------------------------------------------------------
(* Properties of handleError *)

Translated == lastOp.op = "handleError"

\* the failures that are neither a unique, not-found or foreign-key
\* violation nor a validation failure
OtherFailure(error) ==
    /\ error.kind # "zod"
    /\ ~(error.kind = "prisma" /\ error.code \in {"P2002", "P2025", "P2003"})

\* the four mappings that C19 names
NamedTranslations ==
    Translated =>
        /\ (pending.kind = "prisma" /\ pending.code = "P2002")
              => lastOp.result = "A news with this path already exists"
        /\ (pending.kind = "prisma" /\ pending.code = "P2025")
              => lastOp.result = "News not found"
        /\ (pending.kind = "prisma" /\ pending.code = "P2003")
              => lastOp.result = "Referenced record not found"
        /\ pending.kind = "zod"
              => lastOp.result = "Validation error: " \o pending.messages[1]

\* C19 as stated: the four named mappings, and every other failure becomes a
\* generic failure whose message does not depend on the original error
C19_ErrorTranslation_Original ==
    /\ NamedTranslations
    /\ (Translated /\ OtherFailure(pending))
          => lastOp.result = "An unexpected error occurred"

\* C19 (amended): the four named mappings; any other database error code
\* becomes 'Database error: <code>', any other Error is rethrown with its own
\* message, and only a thrown value that is not an Error becomes the generic
\* 'An unexpected error occurred'
C19_ErrorTranslation ==
    /\ NamedTranslations
    /\ (Translated /\ OtherFailure(pending))
          => /\ pending.kind = "prisma" => lastOp.result = "Database error: " \o pending.code
             /\ pending.kind = "error" => lastOp.result = pending.messages[1]
             /\ pending.kind = "other" => lastOp.result = "An unexpected error occurred"

\* an Error that is no database or validation error has been translated to
\* an Error with its own message
C19_Witness ==
    /\ Translated
    /\ pending.kind = "error"
    /\ lastOp.result = "connect ECONNREFUSED"

-----------------------------------------------------------------------------
(* Properties of calculateTrend *)

Calculated == lastOp.op = "calculateTrend"

\* C20: the trend of (today, yesterday) is 0 whenever yesterday = 0 and
\* otherwise equals (today - yesterday) * 100 / yesterday; (0, 0) gives 0,
\* (10, 5) gives 100, and the result is never NaN or infinite
C20_TrendDefinedForAllCounts ==
    Calculated =>
        LET r == lastOp.result
            t == pending.today
            y == pending.yesterday
        IN  /\ r.kind = "number"
            /\ r.den > 0
            /\ y = 0 => r.num = 0
            /\ y # 0 => r.num * y = (t - y) * 100 * r.den
            /\ (t = 0 /\ y = 0) => r.num = 0
            /\ (t = 10 /\ y = 5) => r.num = 100 * r.den

\* the trend of today = 10, yesterday = 0 has been computed and is 0
C20_Witness ==
    /\ Calculated
    /\ pending.today = 10
    /\ pending.yesterday = 0
    /\ lastOp.result = Num(0, 1)

\* the trend of today = 10, yesterday = 5 has been computed and is 100
C20_WitnessHundred ==
    /\ Calculated
    /\ pending.today = 10
    /\ pending.yesterday = 5
    /\ lastOp.result.num = 100 * lastOp.result.den

-----------------------------------------------------------------------------
(* Properties of the reads *)

\* a returned item has the complete sections of one request, its interaction
\* row, and a popularity score that counts exactly the comments returned
ConsistentItem(item) ==
    /\ \E data \in ReadInputs :
          /\ item.title = data.title
          /\ SectionsMatch(item.sections, data.sections)
    /\ Len(item.newsInteractions) = 1
    /\ item.newsInteractions[1].popularityScore
          = 2 * Cardinality(item.newsInteractions[1].comments)

\* a returned interaction row counts exactly the comments returned with it,
\* and every returned author's score covers that author's returned comments
ConsistentComments(row) ==
    /\ row.popularityScore = 2 * Cardinality(row.comments)
    /\ \A c \in row.comments :
          c.contributionScore
              >= 2 * Cardinality({d \in row.comments : d.userId = c.userId})

C18_WitnessComment ==
    /\ lastOp.op = "getNewsComments"
    /\ lastOp.txop = "addComment"
    /\ lastOp.txid = lastOp.target
    /\ lastOp.txpc = 4
    /\ Len(lastOp.result) = 1

-----------------------------------------------------------------------------
(* getDashboardData: the activity list. The audit entries are fetched once,   *)
(* newest first; one identity lookup per entry is started, the lookups settle *)
(* in any order, and the list is returned when all have settled.              *)

MaxDashLogs == 22
MaxLookupFailures == 2

Null == "null"
ActivityLimit == 20

DashUsers == <<"u1", "u2", "u3">>

\* User.clerkId of the user row joined to a log entry
clerkIdOf(userId) ==
    CASE userId = "u1" -> "clerk_1"
      [] userId = "u2" -> "clerk_2"
      [] OTHER         -> "clerk_3"

\* what the identity provider holds: a profile with all fields, a profile with
\* an empty and an absent field, and no profile
profileOf(clerkId) ==
    CASE clerkId = "clerk_1" -> [found |-> TRUE, firstName |-> "Ann", lastName |-> "Lee",
                                 imageUrl |-> "ann.png"]
      [] clerkId = "clerk_2" -> [found |-> TRUE, firstName |-> "Bob", lastName |-> "",
                                 imageUrl |-> Null]
      [] OTHER               -> [found |-> FALSE]

\* value || null
OrNull(value) == IF value = "" \/ value = Null THEN Null ELSE value

\* clerkUser?.field || null
FieldOrNull(clerkUser, field) ==
    IF ~clerkUser.found THEN Null
    ELSE OrNull(CASE field = "firstName" -> clerkUser.firstName
                  [] field = "lastName"  -> clerkUser.lastName
                  [] OTHER               -> clerkUser.imageUrl)

formatLogAction(action) ==
    CASE action = "NEWS_CREATED" -> "Created a new article"
      [] action = "NEWS_UPDATED" -> "Updated an article"
      [] action = "NEWS_DELETED" -> "Deleted an article"
      [] OTHER                   -> "other"

DashActions == <<"NEWS_CREATED", "NEWS_UPDATED", "NEWS_DELETED">>

\* the k-th entry written to the audit log
DashLogEntry(k) ==
    [id |-> k, userId |-> DashUsers[(k % 3) + 1], action |-> DashActions[(k % 3) + 1],
     createdAt |-> k]

\* the first n elements of a sequence
Take(s, n) == SubSeq(s, 1, Min(Len(s), n))

Reverse(s) == [i \in 1..Len(s) |-> s[Len(s) + 1 - i]]

\* log.findMany without take
recentActivities_All(log) == Reverse(log)

\* prisma.log.findMany({ take: 20, orderBy: { createdAt: 'desc' } })
recentActivities(log) == Take(Reverse(log), ActivityLimit)

\* the activity built for one entry by the callback of recentActivities.map;
\* outcome is "throws" when getClerkUser rejects, "ok" when it returns
Activity(log, outcome) ==
    LET clerkUser == profileOf(clerkIdOf(log.userId))
    IN  [id |-> log.id,
         clerkId   |-> clerkIdOf(log.userId),
         firstName |-> IF outcome = "throws" THEN Null ELSE FieldOrNull(clerkUser, "firstName"),
         lastName  |-> IF outcome = "throws" THEN Null ELSE FieldOrNull(clerkUser, "lastName"),
         imageUrl  |-> IF outcome = "throws" THEN Null ELSE FieldOrNull(clerkUser, "imageUrl"),
         activity  |-> formatLogAction(log.action),
         date      |-> log.createdAt]

DashIdle == [stage |-> "idle"]

LookupOutcomes == {"ok", "throws"}

InitDash ==
    /\ news = EmptyFn
    /\ sections = EmptyFn
    /\ newsInteractions = EmptyFn
    /\ userInteractions = EmptyFn
    /\ comments = EmptyFn
    /\ \E n \in 0..MaxDashLogs : logs = [k \in 1..n |-> DashLogEntry(k)]
    /\ nextNewsId = 1
    /\ nextCommentId = 1
    /\ lastOp = NoOp
    /\ basePopularity = EmptyFn
    /\ baseContribution = EmptyFn
    /\ nAdded = 0
    /\ nDeleted = 0
    /\ pending = DashIdle
    /\ PathIdle

DashUntouched ==
    UNCHANGED <<news, sections, newsInteractions, userInteractions, comments, logs,
                nextNewsId, nextCommentId, basePopularity, baseContribution, nAdded,
                nDeleted, pathVars>>

\* the log query and the start of one lookup per fetched entry
GetDashboardDataStart ==
    /\ pending.stage = "idle"
    /\ lastOp.op = "none"
    /\ pending' = [stage |-> "lookups", batch |-> recentActivities(logs),
                   outcomes |-> [i \in {} |-> "ok"], failures |-> 0]
    /\ UNCHANGED lastOp
    /\ DashUntouched

\* the lookups still running: those between the settled ones at both ends
Unsettled ==
    IF pending.stage = "lookups"
    THEN {i \in 1..Len(pending.batch) : i \notin DOMAIN pending.outcomes}
    ELSE {}

Settle(i, outcome) ==
    /\ pending.stage = "lookups"
    /\ i \in Unsettled
    /\ outcome = "throws" => pending.failures < MaxLookupFailures
    /\ pending' = [pending EXCEPT
                     !.outcomes = With(pending.outcomes, i, outcome),
                     !.failures = IF outcome = "throws" THEN @ + 1 ELSE @]
    /\ UNCHANGED lastOp
    /\ DashUntouched

\* the first of the running lookups settles
SettleFirst(outcome) ==
    \E i \in Unsettled : (\A j \in Unsettled : i <= j) /\ Settle(i, outcome)

\* the last of the running lookups settles
SettleLast(outcome) ==
    \E i \in Unsettled : (\A j \in Unsettled : i >= j) /\ Settle(i, outcome)

\* Promise.all resolves: every callback has returned its activity
GetDashboardDataReturn ==
    /\ pending.stage = "lookups"
    /\ Unsettled = {}
    /\ lastOp' = [op |-> "getDashboardData", result |-> Success, user |-> NoSession,
                  target |-> 0,
                  batch |-> pending.batch,
                  outcomes |-> pending.outcomes,
                  activities |-> [i \in 1..Len(pending.batch) |->
                                    Activity(pending.batch[i], pending.outcomes[i])]]
    /\ pending' = DashIdle
    /\ DashUntouched

NextDash ==
    \/ GetDashboardDataStart
    \/ \E outcome \in LookupOutcomes : SettleFirst(outcome)
    \/ \E outcome \in LookupOutcomes : SettleLast(outcome)
    \/ GetDashboardDataReturn

SpecDash == InitDash /\ [][NextDash]_vars

-----------------------------------------------------------------------------
(* Properties of the dashboard activity list *)

DashboardReturned == lastOp.op = "getDashboardData"

\* the profile fields the identity provider holds for the user of an entry,
\* an empty or absent field counting as null
ResolvedFields(log) ==
    LET profile == profileOf(clerkIdOf(log.userId))
    IN  IF profile.found
        THEN [firstName |-> OrNull(profile.firstName), lastName |-> OrNull(profile.lastName),
              imageUrl |-> OrNull(profile.imageUrl)]
        ELSE [firstName |-> Null, lastName |-> Null, imageUrl |-> Null]

\* C21: getDashboardData returns one activity per fetched audit entry, at most
\* 20 and newest first; an entry whose identity lookup failed is emitted with
\* null firstName, lastName and imageUrl, every other entry of the batch keeps
\* the profile fields the provider resolved, and the call does not throw.
C21_ActivitiesSurviveLookupFailures ==
    DashboardReturned =>
        LET acts == lastOp.activities
            n    == Len(logs)
        IN  /\ lastOp.result = Success
            /\ Len(acts) = Min(n, ActivityLimit)
            /\ \A i \in 1..Len(acts) :
                  LET log == logs[n + 1 - i]
                  IN  /\ acts[i].id = log.id
                      /\ acts[i].clerkId = clerkIdOf(log.userId)
                      /\ acts[i].date = log.createdAt
                      /\ IF lastOp.outcomes[i] = "throws"
                         THEN /\ acts[i].firstName = Null
                              /\ acts[i].lastName = Null
                              /\ acts[i].imageUrl = Null
                         ELSE /\ acts[i].firstName = ResolvedFields(log).firstName
                              /\ acts[i].lastName = ResolvedFields(log).lastName
                              /\ acts[i].imageUrl = ResolvedFields(log).imageUrl

\* more than 20 entries in the log, two lookups failed, and an entry between
\* them kept the name the provider resolved
C21_Witness ==
    /\ DashboardReturned
    /\ Len(logs) > ActivityLimit
    /\ Len(lastOp.activities) = ActivityLimit
    /\ \E i, j, k \in 1..Len(lastOp.activities) :
          /\ i < j /\ j < k
          /\ lastOp.outcomes[i] = "throws"
          /\ lastOp.outcomes[k] = "throws"
          /\ lastOp.outcomes[j] = "ok"
          /\ lastOp.activities[j].firstName = "Ann"
          /\ lastOp.activities[j].imageUrl = "ann.png"

-----------------------------------------------------------------------------
(* Specification: news requests served one at a time, by two users, with     *)
(* section lists whose order fields are what a caller may send: consecutive  *)
(* from 0, repeated, with a gap, and negative                                *)

MaxFieldLogs == 2

FieldTitles == {<<"a">>, <<"b">>}
FieldOwners == {"u1", "u2"}
FieldSectionInputs ==
    {<<ImageSection(0), TextSection(1)>>,
     <<TextSection(0), TextSection(0)>>,
     <<TextSection(2)>>,
     <<TextSection(-1)>>}

FieldNewsInputs ==
    [title : FieldTitles, userId : FieldOwners, sections : FieldSectionInputs]

NextFields ==
    \/ \E data \in FieldNewsInputs : CreateNews(data)
    \/ \E id \in NewsIds, data \in FieldNewsInputs : UpdateNewsWithin(MaxFieldLogs, id, data)
    \/ \E id \in NewsIds : DeleteNews(id)

SpecFields == InitNews /\ [][NextFields]_vars

-----------------------------------------------------------------------------
(* Properties of the stored fields of an item *)

WriteSucceeded ==
    /\ lastOp.op \in {"createNews", "updateNews"}
    /\ lastOp.result = Success

StoredOrders(id) == {sections[id][k].order : k \in 1..Len(sections[id])}

\* C22: after a successful createNews or updateNews with n sections, the order
\* indices of the item's stored sections are exactly 0..n-1, without
\* duplicates and without gaps.
C22_StoredOrdersAreZeroToN ==
    WriteSucceeded =>
        StoredOrders(lastOp.target) = 0..(Len(sections[lastOp.target]) - 1)

\* C27: the owning user of an item never changes after creation: after every
\* updateNews call, whatever its input, the item's owner is its owner before
\* the call.
C27_OwnerNeverChanges ==
    [][lastOp'.op = "updateNews" =>
          \A id \in DOMAIN news \cap DOMAIN news' : news'[id].userId = news[id].userId]_vars

\* C24: a createNews or updateNews that ends by raising an error to its caller
\* has created, changed or deleted no item, section, interaction or audit-log
\* row, also when the failure happens in the re-read of the item or in the
\* cache revalidation that run after the transaction has committed.
C24_FailedWriteChangesNothing ==
    [][(/\ lastOp'.op \in {"createNews", "updateNews"}
        /\ lastOp'.result # Success)
       => UNCHANGED <<news, sections, newsInteractions, logs>>]_vars

-----------------------------------------------------------------------------
(* Specification: requests with their caller. A request reaches the server   *)
(* with the session of its caller, then its handler runs; the comment        *)
(* handlers read that session, the news handlers take no session at all.     *)

MaxAuthLogs == 2

AuthNewsInputs == [title : {<<"a">>}, userId : {"u1"}, sections : SectionInputs]

InitAuth ==
    /\ news = EmptyFn
    /\ sections = EmptyFn
    /\ newsInteractions = EmptyFn
    /\ userInteractions = [u \in {"u1", "u2"} |-> 0]
    /\ comments = EmptyFn
    /\ logs = <<>>
    /\ nextNewsId = 1
    /\ nextCommentId = 1
    /\ lastOp = NoOp
    /\ basePopularity = EmptyFn
    /\ baseContribution = [u \in {"u1", "u2"} |-> 0]
    /\ nAdded = 0
    /\ nDeleted = 0
    /\ pending = [caller |-> NoSession]
    /\ PathIdle

\* a request of the caller with this session arrives
Arrive(session) ==
    /\ pending.caller # session
    /\ pending' = [caller |-> session]
    /\ UNCHANGED <<news, sections, newsInteractions, userInteractions, comments, logs,
                   nextNewsId, nextCommentId, lastOp, basePopularity, baseContribution,
                   nAdded, nDeleted, pathVars>>

NextAuth ==
    \/ \E session \in Sessions : Arrive(session)
    \/ \E data \in AuthNewsInputs : CreateNews(data)
    \/ \E id \in NewsIds, data \in AuthNewsInputs : UpdateNewsWithin(MaxAuthLogs, id, data)
    \/ \E id \in NewsIds : DeleteNews(id)
    \/ \E id \in NewsIds, textLen \in TextLens : AddComment(pending.caller, id, textLen)
    \/ \E c \in CommentIds : DeleteComment(pending.caller, c)

SpecAuth == InitAuth /\ [][NextAuth]_vars

-----------------------------------------------------------------------------
(* Properties of the authorization checks *)

MutatingOps == {"createNews", "updateNews", "deleteNews", "addComment", "deleteComment"}

\* the caller has no session, or the request is on an existing item or
\* comment that the caller does not own
NotAuthorized(caller, op, target) ==
    \/ caller = NoSession
    \/ /\ op \in {"updateNews", "deleteNews"}
       /\ target \in DOMAIN news
       /\ news[target].userId # caller
    \/ /\ op = "deleteComment"
       /\ target \in DOMAIN comments
       /\ comments[target].userInteractionId # caller

\* C23: every mutating operation (createNews, updateNews, deleteNews,
\* addComment, deleteComment) fails with an authorization error and persists
\* nothing when the caller has no session or, for an operation on an existing
\* resource, is not the owner of that resource.
C23_UnauthorizedCallersChangeNothing ==
    [][(/\ pending' = pending
        /\ lastOp'.op \in MutatingOps
        /\ NotAuthorized(pending.caller, lastOp'.op, lastOp'.target))
       => /\ lastOp'.result = Unauthorized
          /\ UNCHANGED <<news, sections, newsInteractions, userInteractions, comments,
                         logs>>]_vars

-----------------------------------------------------------------------------
(* Specification: two updateNews requests for one stored item, statement by  *)
(* statement. Every Section row has its own id. A transaction deletes the    *)
(* rows it finds and creates its own; its writes reach the store at commit.  *)
(* The store makes a transaction that writes a row wait for the commit of    *)
(* another transaction that has written the same row.                        *)

RaceSlots == {1, 2}
RaceItem == 1

RaceInputs ==
    {[title |-> <<"a">>, userId |-> "u1", sections |-> <<TextSection(0)>>],
     [title |-> <<"b">>, userId |-> "u1", sections |-> <<ImageSection(0), TextSection(1)>>],
     [title |-> <<"b">>, userId |-> "u1", sections |-> <<ImageSection(0)>>]}

RaceCreated == [title |-> <<"a">>, userId |-> "u1", sections |-> <<ImageSection(0)>>]

\* the Section rows a request creates, each with its row id
RowsOf(creator, input) ==
    [k \in 1..Len(input) |-> [id |-> <<creator, k>>, row |-> SectionRow(input[k])]]

RaceIdle == [stage |-> "idle"]

\* the store after createNews(RaceCreated)
InitRace ==
    /\ news = [i \in {RaceItem} |->
                 [title |-> RaceCreated.title, path |-> generatePath(RaceCreated.title, {}),
                  userId |-> RaceCreated.userId]]
    /\ sections = [i \in {RaceItem} |-> RowsOf(0, RaceCreated.sections)]
    /\ newsInteractions = [i \in {RaceItem} |-> 0]
    /\ userInteractions = EmptyFn
    /\ comments = EmptyFn
    /\ logs = <<LogEntry(RaceCreated.userId, "NEWS_CREATED", RaceItem, RaceCreated.title,
                         generatePath(RaceCreated.title, {}), Len(RaceCreated.sections))>>
    /\ nextNewsId = 2
    /\ nextCommentId = 1
    /\ lastOp = NoOp
    /\ basePopularity = [i \in {RaceItem} |-> 0]
    /\ baseContribution = EmptyFn
    /\ nAdded = 0
    /\ nDeleted = 0
    /\ pending = [s \in RaceSlots |-> RaceIdle]
    /\ PathIdle

RaceUntouched ==
    UNCHANGED <<newsInteractions, userInteractions, comments, nextNewsId, nextCommentId,
                basePopularity, baseContribution, nAdded, nDeleted, pathVars>>

RaceStep(slot, from, to) ==
    /\ pending[slot].stage = from
    /\ pending' = [pending EXCEPT ![slot] = to]

\* getAllExistingPaths and findUnique, before the transaction
RaceRead(slot, data) ==
    /\ NewsValidation(data) = "ok"
    /\ RaceStep(slot, "idle",
                [stage |-> "ready", data |-> data,
                 path |-> generatePath(data.title, filteredPaths(RaceItem)),
                 oldTitle |-> news[RaceItem].title, oldPath |-> news[RaceItem].path,
                 deleted |-> {}, created |-> <<>>])
    /\ UNCHANGED <<news, sections, logs, lastOp>>
    /\ RaceUntouched

InTransaction(slot) == pending[slot].stage \in {"updated", "deleted", "logged"}

\* a store that lets two open transactions write the same row
RowFree_Always(slot) == TRUE

\* no other open transaction has written the News row
RowFree(slot) == \A other \in RaceSlots \ {slot} : ~InTransaction(other)

\* tx.news.update
RaceNewsUpdate(slot) ==
    /\ RowFree(slot)
    /\ RaceStep(slot, "ready", [pending[slot] EXCEPT !.stage = "updated"])
    /\ UNCHANGED <<news, sections, logs, lastOp>>
    /\ RaceUntouched

\* a transaction that goes on without deleting the rows of the item
RaceDeleteMany_Skipped(slot) ==
    /\ RaceStep(slot, "updated", [pending[slot] EXCEPT !.stage = "deleted"])
    /\ UNCHANGED <<news, sections, logs, lastOp>>
    /\ RaceUntouched

\* tx.section.deleteMany: the rows of the item the statement finds
RaceDeleteMany(slot) ==
    /\ RaceStep(slot, "updated",
                [pending[slot] EXCEPT
                   !.stage = "deleted",
                   !.deleted = {sections[RaceItem][k].id : k \in 1..Len(sections[RaceItem])}])
    /\ UNCHANGED <<news, sections, logs, lastOp>>
    /\ RaceUntouched

\* tx.section.create and the payload create, for the next input section
RaceCreateSection(slot) ==
    /\ pending[slot].stage = "deleted"
    /\ Len(pending[slot].created) < Len(pending[slot].data.sections)
    /\ pending' = [pending EXCEPT ![slot].created =
                     SubSeq(RowsOf(slot, pending[slot].data.sections), 1, Len(@) + 1)]
    /\ UNCHANGED <<news, sections, logs, lastOp>>
    /\ RaceUntouched

\* createLog
RaceCreateLog(slot) ==
    /\ pending[slot].stage = "deleted"
    /\ Len(pending[slot].created) = Len(pending[slot].data.sections)
    /\ pending' = [pending EXCEPT ![slot].stage = "logged"]
    /\ UNCHANGED <<news, sections, logs, lastOp>>
    /\ RaceUntouched

KeptRows(rows, deleted) == SelectSeq(rows, LAMBDA r : r.id \notin deleted)

\* the transaction commits: its writes reach the store
RaceCommit(slot) ==
    LET t == pending[slot]
    IN  /\ t.stage = "logged"
        /\ news' = [news EXCEPT ![RaceItem] =
                      [title |-> t.data.title, path |-> t.path, userId |-> t.data.userId]]
        /\ sections' = [sections EXCEPT ![RaceItem] = KeptRows(@, t.deleted) \o t.created]
        /\ logs' = Append(logs, UpdateLogEntry(t.data.userId, RaceItem, t.oldTitle,
                                               t.data.title, t.oldPath, t.path,
                                               Len(t.data.sections)))
        /\ pending' = [pending EXCEPT ![slot].stage = "committed"]
        /\ UNCHANGED lastOp
        /\ RaceUntouched

\* getNewsById and revalidatePath; the request returns
RaceFinish(slot) ==
    /\ RaceStep(slot, "committed", [pending[slot] EXCEPT !.stage = "done"])
    /\ lastOp' = NewsOp("updateNews", Success, RaceItem, "none")
    /\ UNCHANGED <<news, sections, logs>>
    /\ RaceUntouched

NextRace ==
    \/ \E slot \in RaceSlots, data \in RaceInputs : RaceRead(slot, data)
    \/ \E slot \in RaceSlots : RaceNewsUpdate(slot)
    \/ \E slot \in RaceSlots : RaceDeleteMany(slot)
    \/ \E slot \in RaceSlots : RaceCreateSection(slot)
    \/ \E slot \in RaceSlots : RaceCreateLog(slot)
    \/ \E slot \in RaceSlots : RaceCommit(slot)
    \/ \E slot \in RaceSlots : RaceFinish(slot)

SpecRace == InitRace /\ [][NextRace]_vars

-----------------------------------------------------------------------------
(* Properties of concurrent updates of one item *)

BothFinished == \A slot \in RaceSlots : pending[slot].stage = "done"

StoredRows(id) == [k \in 1..Len(sections[id]) |-> sections[id][k].row]

\* the item is what this request wrote: its sections, its title and its slug
ItemIsOf(slot) ==
    /\ StoredRows(RaceItem) = SectionRows(pending[slot].data.sections)
    /\ news[RaceItem].title = pending[slot].data.title
    /\ news[RaceItem].path = pending[slot].path

\* C25: when two updateNews requests for the same item run concurrently with
\* different section sets, after both have finished the item's stored sections
\* are exactly the section set of one of the two requests (no union or mixture,
\* and not empty when both sets are non-empty), and the item's title and slug
\* belong to that same request.
C25_ConcurrentUpdatesLeaveOneSectionSet ==
    (/\ BothFinished
     /\ pending[1].data.sections # pending[2].data.sections)
    => /\ \E slot \in RaceSlots : ItemIsOf(slot)
       /\ Len(sections[RaceItem]) > 0

\* both requests had read the item before either opened its transaction, and
\* the one that committed second is the one the item shows
C25_Witness ==
    /\ BothFinished
    /\ pending[1].data.sections # pending[2].data.sections
    /\ pending[1].oldTitle = RaceCreated.title
    /\ pending[2].oldTitle = RaceCreated.title
    /\ pending[1].data.title # pending[2].data.title
    /\ Len(logs) = 3
    /\ logs[3].newTitle = pending[1].data.title
    /\ ItemIsOf(1)

-----------------------------------------------------------------------------
(* updateSections. One callback per input section is started at once; each   *)
(* updates its Section row and then the payload row, outside any             *)
(* transaction. The call returns when all callbacks have finished, or throws *)
(* as soon as one has thrown, while the others keep running.                 *)

SectionIdRequired == "Section ID is required for updates"

NoId == ""

\* the Section rows of the stored item, with their payload
StoredSections ==
    <<[id |-> "s1", order |-> 0, title |-> "one", isSeparator |-> FALSE,
       type |-> "text", payload |-> "old text"],
      [id |-> "s2", order |-> 1, title |-> "two", isSeparator |-> FALSE,
       type |-> "image", payload |-> "old.png"]>>

\* input sections: for each stored row, for a row that does not exist, and
\* without id
SectionUpdates ==
    {[id |-> "s1", order |-> 1, title |-> "uno", isSeparator |-> TRUE,
      type |-> "text", payload |-> "new text"],
     [id |-> "s2", order |-> 0, title |-> "dos", isSeparator |-> TRUE,
      type |-> "image", payload |-> "new.png"],
     [id |-> "s9", order |-> 2, title |-> "tres", isSeparator |-> FALSE,
      type |-> "text", payload |-> "new text"],
     [id |-> NoId, order |-> 2, title |-> "tres", isSeparator |-> FALSE,
      type |-> "text", payload |-> "new text"]}

MaxSectionUpdates == 2

SectionUpdateLists ==
    UNION {[1..n -> SectionUpdates] : n \in 1..MaxSectionUpdates}

InitSections ==
    /\ news = [i \in {1} |-> [title |-> <<"a">>, path |-> <<"a">>, userId |-> "u1"]]
    /\ sections = [i \in {1} |-> StoredSections]
    /\ newsInteractions = [i \in {1} |-> 0]
    /\ userInteractions = EmptyFn
    /\ comments = EmptyFn
    /\ logs = <<>>
    /\ nextNewsId = 2
    /\ nextCommentId = 1
    /\ lastOp = NoOp
    /\ basePopularity = [i \in {1} |-> 0]
    /\ baseContribution = EmptyFn
    /\ nAdded = 0
    /\ nDeleted = 0
    /\ pending = [stage |-> "idle"]
    /\ PathIdle

SectionsUntouched ==
    UNCHANGED <<news, newsInteractions, userInteractions, comments, logs, nextNewsId,
                nextCommentId, basePopularity, baseContribution, nAdded, nDeleted,
                pathVars>>

\* sections.map(async ...): every callback runs up to its first await; the
\* callback of a section without id has thrown by then
UpdateSectionsStart(input) ==
    /\ pending.stage = "idle"
    /\ pending' = [stage |-> "running", input |-> input,
                   pc |-> [i \in 1..Len(input) |->
                             IF input[i].id = NoId THEN "thrown" ELSE "update"]]
    /\ UNCHANGED <<sections, lastOp>>
    /\ SectionsUntouched

RowIds(rows) == {rows[k].id : k \in 1..Len(rows)}

\* prisma.section.update of callback i: throws when the row does not exist
SectionUpdate(i) ==
    /\ pending.stage \in {"running", "returned"}
    /\ i \in DOMAIN pending.pc
    /\ pending.pc[i] = "update"
    /\ LET section == pending.input[i]
       IN  IF section.id \in RowIds(sections[1])
           THEN /\ sections' = [sections EXCEPT ![1] =
                      [k \in 1..Len(@) |->
                         IF @[k].id = section.id
                         THEN [@[k] EXCEPT !.order = section.order,
                                           !.title = section.title,
                                           !.isSeparator = section.isSeparator]
                         ELSE @[k]]]
                /\ pending' = [pending EXCEPT !.pc[i] = "payload"]
           ELSE /\ pending' = [pending EXCEPT !.pc[i] = "thrown"]
                /\ UNCHANGED sections
    /\ UNCHANGED lastOp
    /\ SectionsUntouched

\* prisma.sectionText.updateMany or prisma.sectionImage.updateMany of callback i
PayloadUpdate(i) ==
    /\ pending.stage \in {"running", "returned"}
    /\ i \in DOMAIN pending.pc
    /\ pending.pc[i] = "payload"
    /\ LET section == pending.input[i]
       IN  sections' = [sections EXCEPT ![1] =
                [k \in 1..Len(@) |->
                   IF @[k].id = section.id /\ @[k].type = section.type
                   THEN [@[k] EXCEPT !.payload = section.payload]
                   ELSE @[k]]]
    /\ pending' = [pending EXCEPT !.pc[i] = "done"]
    /\ UNCHANGED lastOp
    /\ SectionsUntouched

SectionsOp(result, input) ==
    [op |-> "updateSections", result |-> result, user |-> NoSession, target |-> 1,
     input |-> input]

\* Promise.all rejects: one callback has thrown
UpdateSectionsThrow ==
    /\ pending.stage = "running"
    /\ \E i \in DOMAIN pending.pc : pending.pc[i] = "thrown"
    /\ lastOp' = SectionsOp(IF \E i \in DOMAIN pending.pc : pending.input[i].id = NoId
                            THEN SectionIdRequired ELSE RecordNotFound,
                            pending.input)
    /\ pending' = [pending EXCEPT !.stage = "returned"]
    /\ UNCHANGED sections
    /\ SectionsUntouched

\* Promise.all resolves: every callback has returned its row
UpdateSectionsReturn ==
    /\ pending.stage = "running"
    /\ \A i \in DOMAIN pending.pc : pending.pc[i] = "done"
    /\ lastOp' = SectionsOp(Success, pending.input)
    /\ pending' = [pending EXCEPT !.stage = "returned"]
    /\ UNCHANGED sections
    /\ SectionsUntouched

NextSections ==
    \/ \E input \in SectionUpdateLists : UpdateSectionsStart(input)
    \/ \E i \in 1..MaxSectionUpdates : SectionUpdate(i)
    \/ \E i \in 1..MaxSectionUpdates : PayloadUpdate(i)
    \/ UpdateSectionsThrow
    \/ UpdateSectionsReturn

SpecSections == InitSections /\ [][NextSections]_vars

-----------------------------------------------------------------------------
(* Properties of updateSections *)

SectionsReturned == lastOp.op = "updateSections"

StoredRow(id) == CHOOSE r \in Range(sections[1]) : r.id = id

MustFail(input) ==
    \E i \in 1..Len(input) : input[i].id = NoId \/ input[i].id \notin RowIds(StoredSections)

\* C26: updateSections is all-or-nothing: if a section of the input list has
\* no id, or its update fails, the call fails and no section of the list has
\* been modified in storage; otherwise every listed section has its order,
\* title, separator flag and payload updated.
C26_UpdateSectionsAllOrNothing ==
    SectionsReturned =>
        IF MustFail(lastOp.input)
        THEN /\ lastOp.result # Success
             /\ sections[1] = StoredSections
        ELSE /\ lastOp.result = Success
             /\ \A i \in 1..Len(lastOp.input) :
                   \E j \in 1..Len(lastOp.input) :
                      /\ lastOp.input[j].id = lastOp.input[i].id
                      /\ StoredRow(lastOp.input[i].id) =
                            [id |-> lastOp.input[j].id, order |-> lastOp.input[j].order,
                             title |-> lastOp.input[j].title,
                             isSeparator |-> lastOp.input[j].isSeparator,
                             type |-> lastOp.input[j].type,
                             payload |-> lastOp.input[j].payload]

-----------------------------------------------------------------------------
(* Specification of one generatePath call, one iteration of the collision    *)
(* loop of makeUnique at a time                                              *)

\* path, finalPath and counter before the while loop
LoopEntry(basePath) ==
    LET path == IF Len(basePath) > maxLength
                THEN Substring0(basePath, maxLength - 3)
                ELSE basePath
    IN  [stage |-> "loop", path |-> path, finalPath |-> path, counter |-> 1]

\* a loop body that builds the candidate and leaves the counter alone
LoopBody_NoIncrement(path, counter) ==
    [stage |-> "loop", path |-> path,
     finalPath |-> path \o <<separator>> \o NatToStr(counter), counter |-> counter]

\* one execution of the body of the while loop
LoopBody(path, counter) ==
    LET fp1    == path \o <<separator>> \o NatToStr(counter)
        c1     == counter + 1
        suffix == <<separator>> \o NatToStr(c1)
        path2  == Substring0(path, maxLength - Len(suffix))
    IN  IF Len(fp1) > maxLength
        THEN [stage |-> "loop", path |-> path2, finalPath |-> path2 \o suffix, counter |-> c1]
        ELSE [stage |-> "loop", path |-> path, finalPath |-> fp1, counter |-> c1]

InitLoop ==
    /\ news = EmptyFn
    /\ sections = EmptyFn
    /\ newsInteractions = EmptyFn
    /\ userInteractions = EmptyFn
    /\ comments = EmptyFn
    /\ logs = <<>>
    /\ nextNewsId = 1
    /\ nextCommentId = 1
    /\ lastOp = NoOp
    /\ basePopularity = EmptyFn
    /\ baseContribution = EmptyFn
    /\ nAdded = 0
    /\ nDeleted = 0
    /\ existingPaths \in InitialUsedSets
    /\ initialPaths = existingPaths
    /\ returned = <<>>
    /\ \E title \in Titles :
          /\ lastCall = [title |-> title, before |-> existingPaths, result |-> <<>>,
                         called |-> FALSE]
          /\ pending = LoopEntry(slugify(title))

\* while (this.existingPaths.has(finalPath)) { ... }
LoopIteration ==
    /\ pending.stage = "loop"
    /\ pending.finalPath \in existingPaths
    /\ pending' = LoopBody(pending.path, pending.counter)
    /\ UNCHANGED <<news, sections, newsInteractions, userInteractions, comments, logs,
                   nextNewsId, nextCommentId, lastOp, basePopularity, baseContribution,
                   nAdded, nDeleted, pathVars>>

\* the loop ends; makeUnique returns and generatePath records the slug
LoopExit ==
    /\ pending.stage = "loop"
    /\ pending.finalPath \notin existingPaths
    /\ pending' = [pending EXCEPT !.stage = "returned"]
    /\ existingPaths' = existingPaths \cup {pending.finalPath}
    /\ returned' = Append(returned, pending.finalPath)
    /\ lastCall' = [lastCall EXCEPT !.result = pending.finalPath, !.called = TRUE]
    /\ UNCHANGED <<initialPaths, news, sections, newsInteractions, userInteractions,
                   comments, logs, nextNewsId, nextCommentId, lastOp, basePopularity,
                   baseContribution, nAdded, nDeleted>>

NextLoop == LoopIteration \/ LoopExit

\* the call keeps running while it has a statement to execute
SpecLoop == InitLoop /\ [][NextLoop]_vars /\ WF_vars(NextLoop)

-----------------------------------------------------------------------------
(* Properties of the collision loop *)

\* C28: generatePath terminates for every title and every finite set of used
\* slugs: the collision loop of makeUnique, which increments the counter and
\* re-truncates the base, always reaches a candidate that is not in the used
\* set.
C28_GeneratePathTerminates ==
    <>(/\ pending.stage = "returned"
       /\ lastCall.result \notin lastCall.before
       /\ lastCall.result = generatePath(lastCall.title, lastCall.before))

\* the loop has re-truncated the base and passed more than ten used slugs
C28_Witness ==
    /\ pending.stage = "returned"
    /\ pending.counter > 10
    /\ Len(pending.path) < Len(slugify(lastCall.title))
    /\ Cardinality(lastCall.before) > 10

-----------------------------------------------------------------------------
(* The article editor (CreateNewsPage). Its state is the section list, the   *)
(* index being dragged and the uploads recorded in tempFiles; handleSubmit   *)
(* builds the createNews request from them. Positions are counted from 0 as  *)
(* in the source; a URL is the pair of its kind and the file or text behind  *)
(* it.                                                                       *)

MaxEditorSections == 3
MaxEditorAdds == 3
MaxUploads == 2

NoUrl == <<>>
TempUrl(file) == <<"temp-uploads", file>>
PublicUrl(file) == <<"uploads", file>>
TypedUrl == <<"typed", 0>>

NotDragging == -1

\* s with the element at position index (from 0) removed
RemoveAt(s, index) ==
    [k \in 1..(Len(s) - 1) |-> IF k <= index THEN s[k] ELSE s[k + 1]]

\* s with x inserted so that it is at position index (from 0)
InsertAt(s, index, x) ==
    [k \in 1..(Len(s) + 1) |->
       IF k <= index THEN s[k] ELSE IF k = index + 1 THEN x ELSE s[k - 1]]

\* the section addSection and Add Separator append: order: sections.length
NewSection(list, id, type, isSeparator) ==
    [id |-> id, order |-> Len(list), isSeparator |-> isSeparator, type |-> type,
     filled |-> FALSE, imageUrl |-> NoUrl]

\* `section-${index}`
UploadKey(list, index) == index

\* publicUrls[`section-${section.order}`]
SubmitKey(section) == section.order

\* url.replace('/temp-uploads/', '/uploads/')
ReplaceTemp(url) == IF url[1] = "temp-uploads" THEN <<"uploads", url[2]>> ELSE url

EditorStart ==
    [stage |-> "editing", title |-> <<"a">>, list |-> <<>>, draggedIndex |-> NotDragging,
     tempFiles |-> EmptyFn, nextId |-> 1, nextFile |-> 1, toast |-> "none",
     request |-> <<>>]

InitEditor ==
    /\ news = EmptyFn
    /\ sections = EmptyFn
    /\ newsInteractions = EmptyFn
    /\ userInteractions = EmptyFn
    /\ comments = EmptyFn
    /\ logs = <<>>
    /\ nextNewsId = 1
    /\ nextCommentId = 1
    /\ lastOp = NoOp
    /\ basePopularity = EmptyFn
    /\ baseContribution = EmptyFn
    /\ nAdded = 0
    /\ nDeleted = 0
    /\ pending = EditorStart
    /\ PathIdle

EditorOnly ==
    UNCHANGED <<news, sections, newsInteractions, userInteractions, comments, logs,
                nextNewsId, nextCommentId, lastOp, basePopularity, baseContribution,
                nAdded, nDeleted, pathVars>>

Positions == 0..(Len(pending.list) - 1)

Editing == pending.stage = "editing"

\* addSection(type), and the Add Separator button
AddSection(type, isSeparator) ==
    /\ Editing
    /\ Len(pending.list) < MaxEditorSections
    /\ pending.nextId <= MaxEditorAdds
    /\ pending' = [pending EXCEPT
                     !.list = Append(@, NewSection(@, pending.nextId, type, isSeparator)),
                     !.nextId = @ + 1]
    /\ EditorOnly

\* updateSection(index, { content: { type: 'text', data: { text } } })
UpdateText(index) ==
    /\ Editing
    /\ index \in Positions
    /\ pending.list[index + 1].type = "text"
    /\ ~pending.list[index + 1].isSeparator
    /\ ~pending.list[index + 1].filled
    /\ pending' = [pending EXCEPT !.list[index + 1].filled = TRUE]
    /\ EditorOnly

\* updateSection(index, { isSeparator: checked })
ToggleSeparator(index) ==
    /\ Editing
    /\ index \in Positions
    /\ pending' = [pending EXCEPT !.list[index + 1].isSeparator = ~@]
    /\ EditorOnly

\* removeSection(index)
RemoveSection(index) ==
    /\ Editing
    /\ index \in Positions
    /\ pending' = [pending EXCEPT !.list = RemoveAt(@, index)]
    /\ EditorOnly

\* handleDragStart(index)
HandleDragStart(index) ==
    /\ Editing
    /\ index \in Positions
    /\ pending.draggedIndex = NotDragging
    /\ pending' = [pending EXCEPT !.draggedIndex = index]
    /\ EditorOnly

\* handleDragOver(e, index)
HandleDragOver(index) ==
    /\ Editing
    /\ index \in Positions
    /\ pending.draggedIndex # NotDragging
    /\ pending.draggedIndex \in Positions
    /\ pending.draggedIndex # index
    /\ LET draggedSection == pending.list[pending.draggedIndex + 1]
       IN  pending' = [pending EXCEPT
                         !.list = InsertAt(RemoveAt(@, pending.draggedIndex), index,
                                           draggedSection),
                         !.draggedIndex = index]
    /\ EditorOnly

\* handleDragEnd()
HandleDragEnd ==
    /\ Editing
    /\ pending.draggedIndex # NotDragging
    /\ pending' = [pending EXCEPT !.draggedIndex = NotDragging]
    /\ EditorOnly

\* handleSectionImageUpload(index, file): the upload succeeds
HandleSectionImageUpload(index) ==
    /\ Editing
    /\ index \in Positions
    /\ pending.list[index + 1].type = "image"
    /\ ~pending.list[index + 1].isSeparator
    /\ pending.nextFile <= MaxUploads
    /\ LET file == pending.nextFile
       IN  pending' = [pending EXCEPT
                         !.tempFiles = With(@, UploadKey(pending.list, index), file),
                         !.list[index + 1].imageUrl = TempUrl(file),
                         !.nextFile = @ + 1]
    /\ EditorOnly

\* handleSectionImageUpload(index, url): an address typed in
HandleSectionImageUrl(index) ==
    /\ Editing
    /\ index \in Positions
    /\ pending.list[index + 1].type = "image"
    /\ ~pending.list[index + 1].isSeparator
    /\ pending.list[index + 1].imageUrl = NoUrl
    /\ pending' = [pending EXCEPT !.list[index + 1].imageUrl = TypedUrl]
    /\ EditorOnly

\* the checks of handleSubmit before anything is sent
SubmitValidation(list) ==
    IF Len(list) = 0 THEN "Please add at least one section"
    ELSE IF \E k \in 1..Len(list) : list[k].type = "image" /\ list[k].imageUrl = NoUrl
    THEN "Please provide images for all image sections"
    ELSE IF \E k \in 1..Len(list) : list[k].type = "text" /\ ~list[k].filled
    THEN "Please provide content for all text sections"
    ELSE "ok"

\* moveToPublic for every entry of tempFiles
publicUrls(tempFiles) == [key \in DOMAIN tempFiles |-> PublicUrl(tempFiles[key])]

\* the sections handleSubmit sends
finalSections(list, tempFiles) ==
    [k \in 1..Len(list) |->
       LET section == list[k]
           urls    == publicUrls(tempFiles)
       IN  [id |-> section.id, order |-> section.order,
            isSeparator |-> section.isSeparator, type |-> section.type,
            imageUrl |-> IF section.type = "image"
                         THEN IF SubmitKey(section) \in DOMAIN urls
                              THEN ReplaceTemp(urls[SubmitKey(section)])
                              ELSE section.imageUrl
                         ELSE NoUrl]]

\* handleSubmit up to the call of createNews
HandleSubmit ==
    /\ Editing
    /\ LET v == SubmitValidation(pending.list)
       IN  IF v # "ok"
           THEN /\ pending.toast # v
                /\ pending' = [pending EXCEPT !.toast = v]
           ELSE pending' = [pending EXCEPT
                              !.stage = "submitting",
                              !.request = [title |-> pending.title, userId |-> "u1",
                                           sections |-> finalSections(pending.list,
                                                                      pending.tempFiles)]]
    /\ EditorOnly

\* createNews(newsData), on the server
SubmitCreateNews ==
    /\ pending.stage = "submitting"
    /\ lastOp.op = "none"
    /\ CreateNews(pending.request)

NextEditor ==
    \/ \E type \in {"text", "image"} : AddSection(type, FALSE)
    \/ AddSection("text", TRUE)
    \/ \E index \in 0..(MaxEditorSections - 1) : UpdateText(index)
    \/ \E index \in 0..(MaxEditorSections - 1) : ToggleSeparator(index)
    \/ \E index \in 0..(MaxEditorSections - 1) : RemoveSection(index)
    \/ \E index \in 0..(MaxEditorSections - 1) : HandleDragStart(index)
    \/ \E index \in 0..(MaxEditorSections - 1) : HandleDragOver(index)
    \/ HandleDragEnd
    \/ \E index \in 0..(MaxEditorSections - 1) : HandleSectionImageUpload(index)
    \/ \E index \in 0..(MaxEditorSections - 1) : HandleSectionImageUrl(index)
    \/ HandleSubmit
    \/ SubmitCreateNews

SpecEditor == InitEditor /\ [][NextEditor]_vars

-----------------------------------------------------------------------------
(* Properties of the article editor *)

Submitting == pending.stage = "submitting"

\* C29: in the article editor, after any sequence of addSection, add-separator,
\* removeSection and drag-reorder operations, the order fields of the sections
\* in the list are pairwise distinct and each section's order equals its
\* position in the displayed list, so the sections handleSubmit sends carry
\* the orders 0..n-1 in display order.
C29_EditorOrderIsPosition ==
    /\ \A k \in 1..Len(pending.list) : pending.list[k].order = k - 1
    /\ \A j, k \in 1..Len(pending.list) :
          j # k => pending.list[j].order # pending.list[k].order
    /\ Submitting =>
          \A k \in 1..Len(pending.request.sections) :
             pending.request.sections[k].order = k - 1

UploadedFiles == 1..MaxUploads

\* C30: in the article editor, for any sequence of section add, remove,
\* drag-reorder and image-upload operations followed by a submit, every image
\* section whose image was uploaded from a file is submitted with the promoted
\* public URL of its own uploaded file, never with another section's file and
\* never with its temporary URL.
C30_UploadedImageSubmittedWithOwnUrl ==
    Submitting =>
        \A k \in 1..Len(pending.list) :
           \A file \in UploadedFiles :
              (/\ pending.list[k].type = "image"
               /\ pending.list[k].imageUrl = TempUrl(file))
              => pending.request.sections[k].imageUrl = PublicUrl(file)

====
